---- MODULE Spec2Model ----
(***************************************************************************)
(* A model of the social feed client.                                       *)
(*  - The API request/response pipeline (services/api/client.ts): how a    *)
(*    request is built from the caller's options and the stored            *)
(*    credentials, and how the response or the failure of the fetch        *)
(*    becomes the call's result.                                           *)
(*  - The posts and interactions services built on it.                     *)
(*  - The feed page's comment and reaction handlers.                       *)
(*  - The login page's submit handler.                                     *)
(* Each layer has a specification of its own: Spec (the API client),       *)
(* SvcSpec (the services), FeedSpec (the feed page), LoginSpec (login).    *)
(*                                                                         *)
(* Conventions.                                                            *)
(*  - Opaque strings (tokens, header names and values, methods, endpoints) *)
(*    are TLA+ strings; NULL stands for JavaScript null/undefined there.   *)
(*  - Text that the code builds, encodes, decodes or inspects (JSON on the *)
(*    wire, error messages) is a sequence of atoms: each atom is a chunk   *)
(*    of characters, and the JSON punctuation characters are atoms of      *)
(*    their own.                                                           *)
(*  - JavaScript values are tagged records, see JNull .. JForm.            *)
(***************************************************************************)
EXTENDS Integers, Sequences, FiniteSets, TLC

VARIABLES
    storage,    \* browser localStorage: key -> string or NULL
    call,       \* the apiClient invocation in progress or last settled
    svc,        \* the service function invocation in progress or last settled
    server,     \* what the remote API holds for the post the services act on
    feed,       \* the feed page: a post card's counters and controls, and
                \* the handler invocations in progress
    login,      \* the login page: the form and its submit handler
    ui          \* the page a specification of another part of the client is
                \* about: the profile page, the navbar, the edit form, a
                \* throttled function, a pure function under study

vars == <<storage, call, svc, server, feed, login, ui>>

\* The layers above the API client.
layerVars == <<svc, server, feed, login, ui>>

-----------------------------------------------------------------------------
(* JavaScript values *)

NULL == "<null>"

JUndef == [t |-> "undef"]
JNull == [t |-> "null"]
JStr(s) == [t |-> "str", v |-> s]
JArr(a) == [t |-> "arr", v |-> a]
JObj(p) == [t |-> "obj", v |-> p]
JForm == [t |-> "form"]
JNum(n) == [t |-> "num", v |-> n]
JBool(b) == [t |-> "bool", v |-> b]

\* JavaScript truthiness of a value: if (body), a || b.
Truthy(v) ==
    CASE v.t = "undef" -> FALSE
      [] v.t = "null" -> FALSE
      [] v.t = "str" -> v.v # <<>>
      [] v.t = "num" -> v.v # 0
      [] v.t = "bool" -> v.v
      [] OTHER -> TRUE

\* if (apiKey), if (accessToken) on a string-or-null read from storage.
TruthyStr(s) == s # NULL /\ s # ""

Nullish(v) == v.t \in {"undef", "null"}

-----------------------------------------------------------------------------
(* JSON.stringify and JSON.parse / response.json() on atom sequences *)

Quote == "\""
Backslash == "\\"

RECURSIVE Escape(_)
Escape(s) ==
    IF s = <<>> THEN <<>>
    ELSE (IF Head(s) \in {Quote, Backslash} THEN <<Backslash, Head(s)>>
          ELSE <<Head(s)>>) \o Escape(Tail(s))

QuoteString(s) == <<Quote>> \o Escape(s) \o <<Quote>>

RECURSIVE JSONstringify(_)
RECURSIVE StringifyElems(_)
RECURSIVE StringifyProps(_)
StringifyElems(a) ==
    IF a = <<>> THEN <<>>
    ELSE JSONstringify(Head(a))
         \o (IF Tail(a) = <<>> THEN <<>> ELSE <<",">> \o StringifyElems(Tail(a)))
StringifyProps(p) ==
    IF p = <<>> THEN <<>>
    ELSE QuoteString(Head(p)[1]) \o <<":">> \o JSONstringify(Head(p)[2])
         \o (IF Tail(p) = <<>> THEN <<>> ELSE <<",">> \o StringifyProps(Tail(p)))
JSONstringify(v) ==
    CASE v.t = "null" -> <<"null">>
      [] v.t = "num" -> <<ToString(v.v)>>
      [] v.t = "bool" -> IF v.v THEN <<"true">> ELSE <<"false">>
      [] v.t = "str" -> QuoteString(v.v)
      [] v.t = "arr" -> <<"[">> \o StringifyElems(v.v) \o <<"]">>
      [] v.t = "obj" -> <<"{">> \o StringifyProps(v.v) \o <<"}">>

\* The number literals of the JSON texts of this model.
MaxNumber == 20
NumberAtoms == {ToString(n) : n \in 0..MaxNumber}
NumberOf(atom) == CHOOSE n \in 0..MaxNumber : ToString(n) = atom

\* A parse step: [ok, val, rest]; rest is the text left after the value.
ParseFail == [ok |-> FALSE, val |-> JUndef, rest |-> <<>>]
ParseOk(v, r) == [ok |-> TRUE, val |-> v, rest |-> r]

\* The characters of a string literal after its opening quote.
RECURSIVE ParseChars(_, _)
ParseChars(s, acc) ==
    IF s = <<>> THEN ParseFail
    ELSE IF Head(s) = Quote THEN ParseOk(JStr(acc), Tail(s))
    ELSE IF Head(s) = Backslash
         THEN IF Len(s) < 2 \/ s[2] \notin {Quote, Backslash} THEN ParseFail
              ELSE ParseChars(Tail(Tail(s)), Append(acc, s[2]))
    ELSE ParseChars(Tail(s), Append(acc, Head(s)))

RECURSIVE ParseValue(_)
RECURSIVE ParseElems(_, _)
RECURSIVE ParseProps(_, _)
ParseElems(s, acc) ==
    LET e == ParseValue(s) IN
    IF ~e.ok \/ e.rest = <<>> THEN ParseFail
    ELSE IF Head(e.rest) = "]" THEN ParseOk(JArr(Append(acc, e.val)), Tail(e.rest))
    ELSE IF Head(e.rest) = "," THEN ParseElems(Tail(e.rest), Append(acc, e.val))
    ELSE ParseFail
ParseProps(s, acc) ==
    IF s = <<>> \/ Head(s) # Quote THEN ParseFail
    ELSE LET k == ParseChars(Tail(s), <<>>) IN
         IF ~k.ok \/ k.rest = <<>> \/ Head(k.rest) # ":" THEN ParseFail
         ELSE LET e == ParseValue(Tail(k.rest))
                  \* a repeated key overwrites the earlier property
                  kept == SelectSeq(acc, LAMBDA q : q[1] # k.val.v)
              IN
              IF ~e.ok \/ e.rest = <<>> THEN ParseFail
              ELSE IF Head(e.rest) = "}"
                   THEN ParseOk(JObj(Append(kept, <<k.val.v, e.val>>)), Tail(e.rest))
              ELSE IF Head(e.rest) = ","
                   THEN ParseProps(Tail(e.rest), Append(kept, <<k.val.v, e.val>>))
              ELSE ParseFail
ParseValue(s) ==
    IF s = <<>> THEN ParseFail
    ELSE CASE Head(s) = "null" -> ParseOk(JNull, Tail(s))
           [] Head(s) = "true" -> ParseOk(JBool(TRUE), Tail(s))
           [] Head(s) = "false" -> ParseOk(JBool(FALSE), Tail(s))
           [] Head(s) \in NumberAtoms -> ParseOk(JNum(NumberOf(Head(s))), Tail(s))
           [] Head(s) = Quote -> ParseChars(Tail(s), <<>>)
           [] Head(s) = "[" ->
                IF Len(s) >= 2 /\ s[2] = "]" THEN ParseOk(JArr(<<>>), Tail(Tail(s)))
                ELSE ParseElems(Tail(s), <<>>)
           [] Head(s) = "{" ->
                IF Len(s) >= 2 /\ s[2] = "}" THEN ParseOk(JObj(<<>>), Tail(Tail(s)))
                ELSE ParseProps(Tail(s), <<>>)
           [] OTHER -> ParseFail

\* JSON.parse of a whole text: fails unless the text is exactly one value.
JSONparse(text) ==
    LET r == ParseValue(text) IN
    IF r.ok /\ r.rest = <<>> THEN r ELSE ParseFail

\* The text of a number inside a template string: `${response.status}`.
NumText(n) == <<ToString(n)>>

-----------------------------------------------------------------------------
(* Errors *)

\* new ApiError(message, status): the typed error of services/error/error.
ApiError(message, status) ==
    [kind |-> "ApiError", message |-> message, status |-> status]

\* new Error(message): no status.
PlainError(message) == [kind |-> "Error", message |-> message]

\* What a rejected fetch, a failed response.json() and a property read of null
\* throw inside the try block: not an ApiError.
TypeErrorNetwork == [kind |-> "TypeError", message |-> JStr(<<"Failed to ", "fetch">>)]
SyntaxErrorJSON == [kind |-> "SyntaxError", message |-> JStr(<<"Unexpected token">>)]
TypeErrorNull == [kind |-> "TypeError", message |-> JStr(<<"Cannot read properties of null">>)]
NothingThrown == [kind |-> "none"]

GenericMessage == JStr(<<"A network or client error occurred.">>)

-----------------------------------------------------------------------------
(* localStorage *)

StorageKeys == {"accessToken", "apiKey", "user"}

\* getLocalItem(key) of utils/storage: the stored string, or null.
getLocalItem(store, key) == store[key]

\* setLocalItem(key, value) of utils/storage.
setLocalItem(store, key, value) == [store EXCEPT ![key] = value]

-----------------------------------------------------------------------------
(* apiClient: building the request *)

API_KEY_HEADER == "X-Noroff-API-Key"
API_URL == "https://v2.api.noroff.dev"

NoHeaders == [n \in {} |-> ""]
SetHeader(h, n, v) == [m \in DOMAIN h \cup {n} |-> IF m = n THEN v ELSE h[m]]
\* { ...headers, ...customOptions.headers }: the right operand wins.
SpreadHeaders(a, b) == [m \in DOMAIN a \cup DOMAIN b |-> IF m \in DOMAIN b THEN b[m] ELSE a[m]]

\* The options object of a call: method is NULL when the caller gives none.
Options(method, body, headers) == [method |-> method, body |-> body, headers |-> headers]

NoBody == [t |-> "none"]
TextBody(s) == [t |-> "text", s |-> s]
FormBody == [t |-> "form"]

\* Mutant: the spread comes first, so the body decides the method.
ConfigMethodBodyFirst(options) ==
    IF Truthy(options.body) THEN "POST"
    ELSE IF options.method # NULL THEN options.method ELSE "GET"

\* method: body ? "POST" : "GET", overridden by ...customOptions.
ConfigMethod(options) ==
    IF options.method # NULL THEN options.method
    ELSE IF Truthy(options.body) THEN "POST" ELSE "GET"

\* config.body: FormData as it is, anything else through JSON.stringify.
ConfigBody(options) ==
    IF ~Truthy(options.body) THEN NoBody
    ELSE IF options.body.t = "form" THEN FormBody
    ELSE TextBody(JSONstringify(options.body))

\* The Content-Type the client sets for a serialized body.
WithContentType(h, options) ==
    IF Truthy(options.body) /\ options.body.t # "form"
    THEN SetHeader(h, "Content-Type", "application/json")
    ELSE h

\* Mutant: the token is sent without its scheme.
WithAuthHeadersNoScheme(h, apiKey, accessToken) ==
    LET h1 == IF TruthyStr(apiKey) THEN SetHeader(h, API_KEY_HEADER, apiKey) ELSE h
    IN IF TruthyStr(accessToken) THEN SetHeader(h1, "Authorization", accessToken) ELSE h1

\* Mutant: else if, so that a stored API key keeps the token out.
WithAuthHeadersElseIf(h, apiKey, accessToken) ==
    IF TruthyStr(apiKey) THEN SetHeader(h, API_KEY_HEADER, apiKey)
    ELSE IF TruthyStr(accessToken)
         THEN SetHeader(h, "Authorization", "Bearer " \o accessToken)
         ELSE h

\* The auth headers, from the two values read from storage.
WithAuthHeaders(h, apiKey, accessToken) ==
    LET h1 == IF TruthyStr(apiKey) THEN SetHeader(h, API_KEY_HEADER, apiKey) ELSE h
    IN IF TruthyStr(accessToken)
       THEN SetHeader(h1, "Authorization", "Bearer " \o accessToken)
       ELSE h1

\* The RequestInit handed to fetch.
BuildConfig(options, apiKey, accessToken) ==
    [method |-> ConfigMethod(options),
     headers |-> WithAuthHeaders(
                     WithContentType(SpreadHeaders(NoHeaders, options.headers), options),
                     apiKey, accessToken),
     body |-> ConfigBody(options)]


-----------------------------------------------------------------------------
(* apiClient: handling the response *)

\* A response as fetch delivers it: status, content-type header (JNull when the
\* header is missing) and the body text.
Response(status, contentType, body) ==
    [status |-> status, contentType |-> contentType, body |-> body]
NoResponse == [status |-> 0, contentType |-> JNull, body |-> <<>>]

\* response.ok
ResponseOk(resp) == resp.status >= 200 /\ resp.status <= 299

\* String.prototype.includes on atoms.
Includes(s, word) == \E i \in 1..Len(s) : s[i] = word

\* Mutant: the status 204 is not looked at.
IsEmptyResponseNo204(resp) ==
    \/ ~Truthy(resp.contentType)
    \/ ~Includes(resp.contentType.v, "application/json")

\* status === 204 || !contentType || !contentType.includes("application/json")
IsEmptyResponse(resp) ==
    \/ resp.status = 204
    \/ ~Truthy(resp.contentType)
    \/ ~Includes(resp.contentType.v, "application/json")

\* value.key for a value that is not null or undefined.
Prop(v, key) ==
    IF v.t = "obj" /\ \E i \in 1..Len(v.v) : v.v[i][1] = key
    THEN v.v[CHOOSE i \in 1..Len(v.v) : v.v[i][1] = key][2]
    ELSE JUndef

\* value[0] for a value that is not null or undefined.
Index0(v) ==
    CASE v.t = "arr" -> IF v.v = <<>> THEN JUndef ELSE v.v[1]
      [] v.t = "str" -> IF v.v = <<>> THEN JUndef ELSE JStr(<<v.v[1]>>)
      [] v.t = "obj" -> Prop(v, <<"0">>)
      [] OTHER -> JUndef

HttpErrorMessage(status) == JStr(<<"HTTP Error: ">> \o NumText(status))

\* Mutant: the message is read from the body itself, not from errors[0].
ErrorMessageTopLevel(responseData, status) ==
    LET message == Prop(responseData, <<"message">>)
    IN IF Truthy(message) THEN message ELSE HttpErrorMessage(status)

\* responseData.errors?.[0]?.message || `HTTP Error: ${response.status}`
\* for a responseData that is not null.
ErrorMessage(responseData, status) ==
    LET errors == Prop(responseData, <<"errors">>)
        first == IF Nullish(errors) THEN JUndef ELSE Index0(errors)
        message == IF Nullish(first) THEN JUndef ELSE Prop(first, <<"message">>)
    IN IF Truthy(message) THEN message ELSE HttpErrorMessage(status)

\* Mutant: the catch block replaces every error.
CatchWrapAll(error) == PlainError(GenericMessage)

\* catch (error): an ApiError is rethrown, anything else is replaced.
Catch(error) ==
    IF error.kind = "ApiError" THEN error ELSE PlainError(GenericMessage)

Returned(value) == [kind |-> "return", value |-> value]
Pending == [kind |-> "pending"]

\* The call once the try block has thrown `error`.
Thrown(c, error) ==
    [c EXCEPT !.pc = "done", !.thrown = error, !.outcome = Catch(error)]

\* The call once the try block has returned `value`.
Return(c, value) ==
    [c EXCEPT !.pc = "done", !.outcome = Returned(value)]

\* Mutant: an empty response is a success whatever its status.
AfterFetchNoOkCheck(c, resp) ==
    LET c1 == [c EXCEPT !.response = resp] IN
    IF IsEmptyResponse(resp) THEN Return(c1, JNull)
    ELSE [c1 EXCEPT !.pc = "json", !.bodyUsed = TRUE]

\* Mutant: a failed request is sent once more.
AfterFetchRetry(c, resp) ==
    LET c1 == [c EXCEPT !.response = resp] IN
    IF ~ResponseOk(resp) /\ c.fetches < 2
    THEN [c EXCEPT !.fetches = @ + 1]
    ELSE IF IsEmptyResponse(resp)
    THEN IF ~ResponseOk(resp)
         THEN Thrown(c1, ApiError(HttpErrorMessage(resp.status), resp.status))
         ELSE Return(c1, JNull)
    ELSE [c1 EXCEPT !.pc = "json", !.bodyUsed = TRUE]

\* Lines 68-82: from the resolved fetch to the call of response.json().
AfterFetch(c, resp) ==
    LET c1 == [c EXCEPT !.response = resp] IN
    IF IsEmptyResponse(resp)
    THEN IF ~ResponseOk(resp)
         THEN Thrown(c1, ApiError(HttpErrorMessage(resp.status), resp.status))
         ELSE Return(c1, JNull)
    ELSE [c1 EXCEPT !.pc = "json", !.bodyUsed = TRUE]

\* Lines 82-90: from the settled response.json() to the end of the try block.
\* `parsed` is JSON.parse's result on the body text.
AfterJson(c, parsed) ==
    IF ~parsed.ok THEN Thrown(c, SyntaxErrorJSON)
    ELSE IF ~ResponseOk(c.response)
         THEN IF Nullish(parsed.val)
              THEN Thrown(c, TypeErrorNull)
              ELSE Thrown(c, ApiError(ErrorMessage(parsed.val, c.response.status),
                                      c.response.status))
         ELSE Return(c, parsed.val)

\* Lines 30-66: the synchronous part of apiClient, up to the dispatch of fetch.
\* arg is the body the caller handed over (post and put record their own).
ApiClientStart(helper, endpoint, options, store) ==
    LET apiKey == getLocalItem(store, "apiKey")
        accessToken == getLocalItem(store, "accessToken")
    IN [pc |-> "fetch",
        helper |-> helper,
        arg |-> options.body,
        options |-> options,
        apiKey |-> apiKey,
        accessToken |-> accessToken,
        url |-> API_URL \o endpoint,
        config |-> BuildConfig(options, apiKey, accessToken),
        fetches |-> 1,
        response |-> NoResponse,
        bodyUsed |-> FALSE,
        thrown |-> NothingThrown,
        outcome |-> Pending]

IdleCall ==
    [pc |-> "idle", helper |-> "none", arg |-> JUndef,
     options |-> Options(NULL, JUndef, NoHeaders),
     apiKey |-> NULL, accessToken |-> NULL, url |-> "",
     config |-> [method |-> "", headers |-> NoHeaders, body |-> NoBody],
     fetches |-> 0, response |-> NoResponse, bodyUsed |-> FALSE,
     thrown |-> NothingThrown, outcome |-> Pending]


-----------------------------------------------------------------------------
(* The exported helpers and the inputs they are called with *)

W(word) == <<word>>

Endpoints == {"/social/posts/42/comment"}

\* Bodies handed to post and put: {} (reactToPost, followUser),
\* { body, replyToId } and { body } (createComment), and a FormData.
RequestBodies ==
    << JObj(<<>>),
       JObj(<< <<W("body"), JStr(<<"say ", Quote, "hi", Quote>>)>>,
               <<W("replyToId"), JStr(W("7"))>> >>),
       JForm,
       JObj(<< <<W("body"), JStr(W("hello"))>> >>) >>

\* Options apiClient accepts besides those of the four helpers: a body without
\* a method (as the copy of client.ts in src/unnamed/part_001 calls it), a
\* method of its own, a null body, custom headers.
DirectOptions ==
    << Options(NULL, RequestBodies[2], NoHeaders),
       Options(NULL, JForm, NoHeaders),
       Options("PATCH", RequestBodies[2], NoHeaders),
       Options("PATCH", JUndef, NoHeaders),
       Options(NULL, JNull, [n \in {"Accept"} |-> "application/json"]) >>

\* export const get = (endpoint) => apiClient(endpoint)
get(endpoint, store) ==
    ApiClientStart("get", endpoint, Options(NULL, JUndef, NoHeaders), store)

\* Mutant: the helper serializes the body before apiClient does.
postStringified(endpoint, body, store) ==
    ApiClientStart("post", endpoint,
                   Options("POST",
                           IF body.t = "form" THEN JStr(<<"{", "}">>)
                           ELSE JStr(JSONstringify(body)),
                           NoHeaders),
                   store)

\* export const post = (endpoint, body) => apiClient(endpoint, { method: "POST", body })
post(endpoint, body, store) ==
    ApiClientStart("post", endpoint, Options("POST", body, NoHeaders), store)

\* export const put = (endpoint, body) => apiClient(endpoint, { method: "PUT", body })
put(endpoint, body, store) ==
    ApiClientStart("put", endpoint, Options("PUT", body, NoHeaders), store)

\* export const del = (endpoint) => apiClient(endpoint, { method: "DELETE" })
del(endpoint, store) ==
    ApiClientStart("del", endpoint, Options("DELETE", JUndef, NoHeaders), store)

\* What the server may answer.
Statuses == {200, 201, 204, 400, 404, 500}

ContentTypes ==
    << JNull,
       JStr(W("text/html")),
       JStr(<<"application/json", "; charset=utf-8">>) >>

M(text) == <<Quote, text, Quote>>
ErrorsBody(entries) == <<"{", Quote, "errors", Quote, ":", "[">> \o entries \o <<"]", "}">>

ResponseBodies ==
    << <<>>,
       W("<html>"),
       W("null"),
       M("oops"),
       <<"{", Quote, "data", Quote, ":", "{", "}", "}">>,
       ErrorsBody(<<>>),
       ErrorsBody(<<"{", "}">>),
       ErrorsBody(<<"null">>),
       ErrorsBody(<<"{", Quote, "message", Quote, ":">> \o M("Post not found") \o <<"}">>),
       ErrorsBody(<<"{", Quote, "message", Quote, ":", Quote, Quote, "}">>) >>

-----------------------------------------------------------------------------
(* The API client's steps *)

CallFree == call.pc \in {"idle", "done"}

Get ==
    /\ CallFree
    /\ \E e \in Endpoints : call' = get(e, storage)
    /\ UNCHANGED storage
    /\ UNCHANGED layerVars

Post ==
    /\ CallFree
    /\ \E e \in Endpoints, i \in 1..Len(RequestBodies) :
           call' = [post(e, RequestBodies[i], storage) EXCEPT !.arg = RequestBodies[i]]
    /\ UNCHANGED storage
    /\ UNCHANGED layerVars

Put ==
    /\ CallFree
    /\ \E e \in Endpoints, i \in 1..Len(RequestBodies) :
           call' = [put(e, RequestBodies[i], storage) EXCEPT !.arg = RequestBodies[i]]
    /\ UNCHANGED storage
    /\ UNCHANGED layerVars

Del ==
    /\ CallFree
    /\ \E e \in Endpoints : call' = del(e, storage)
    /\ UNCHANGED storage
    /\ UNCHANGED layerVars

\* apiClient called with options other than those the four helpers pass.
ApiClientDirect ==
    /\ CallFree
    /\ \E e \in Endpoints, i \in 1..Len(DirectOptions) :
           call' = ApiClientStart("apiClient", e, DirectOptions[i], storage)
    /\ UNCHANGED storage
    /\ UNCHANGED layerVars

\* await fetch(...) resolves with a response.
FetchResolve ==
    /\ call.pc = "fetch"
    /\ \E st \in Statuses, ct \in 1..Len(ContentTypes), b \in 1..Len(ResponseBodies) :
           call' = AfterFetch(call, Response(st, ContentTypes[ct], ResponseBodies[b]))
    /\ UNCHANGED storage
    /\ UNCHANGED layerVars

\* await fetch(...) rejects: the network failed.
FetchReject ==
    /\ call.pc = "fetch"
    /\ call' = Thrown(call, TypeErrorNetwork)
    /\ UNCHANGED storage
    /\ UNCHANGED layerVars

\* await response.json() settles: it resolves with the parsed body, or rejects
\* when the body is no JSON text.
JsonSettle ==
    /\ call.pc = "json"
    /\ call' = AfterJson(call, JSONparse(call.response.body))
    /\ UNCHANGED storage
    /\ UNCHANGED layerVars

-----------------------------------------------------------------------------
(* Writers of localStorage *)

\* localStorage is shared by every tab of the application. The login handler of
\* another tab stores the session of a successful login: the access token and
\* the user name of the response, each only when it is non-empty
\* (LogInPage.ts, lines 140-147).
LoginTokens == {"tokA", NULL}
LoginNames == {"alice", NULL}

StoreSession(store, accessToken, name) ==
    LET s1 == IF TruthyStr(accessToken)
              THEN setLocalItem(store, "accessToken", accessToken)
              ELSE store
    IN IF TruthyStr(name) THEN setLocalItem(s1, "user", name) ELSE s1

OtherTabStoresSession ==
    /\ \E t \in LoginTokens, n \in LoginNames :
           /\ storage' = StoreSession(storage, t, n)
           /\ storage' # storage
    /\ UNCHANGED call
    /\ UNCHANGED layerVars

\* ... and, once fetchApiKey has answered with a key, the API key
\* (LogInPage.ts, lines 151-154).
LoginApiKeys == {"keyA"}

OtherTabStoresApiKey ==
    /\ \E k \in LoginApiKeys :
           /\ storage' = setLocalItem(storage, "apiKey", k)
           /\ storage' # storage
    /\ UNCHANGED call
    /\ UNCHANGED layerVars

-----------------------------------------------------------------------------
(* The layers above the API client, at rest *)

IdleSvc ==
    [pc |-> "idle", fn |-> "none", args |-> [none |-> TRUE], stage |-> "only",
     calls |-> 0, answers |-> <<>>, before |-> FALSE, caught |-> NothingThrown,
     outcome |-> Pending]
\* The server holds no reaction of this user.
ServerAtRest == [reactions |-> {}]
\* The feed page is not shown.
IdleFeed ==
    [pc |-> "closed", reactionCount |-> 0, commentCount |-> 0, reacted |-> FALSE,
     input |-> <<>>, submitDisabled |-> FALSE, items |-> 0, inv |-> <<>>,
     last |-> [handler |-> "none", result |-> "none"]]
\* No other page is shown.
IdlePage == [pc |-> "closed"]
\* The login page is not shown.
IdleLogin ==
    [pc |-> "closed", request |-> <<>>, formError |-> "", color |-> "red",
     submitDisabled |-> FALSE, result |-> JUndef, outcome |-> "none",
     authorization |-> NULL, apiKey |-> "none", navbarRefreshed |-> FALSE,
     redirect |-> FALSE]

-----------------------------------------------------------------------------
(* The API client on its own *)

\* localStorage outlives the page: a session starts with whatever is stored.
StoredTokens == {NULL, "", "tokA"}
StoredKeys == {NULL, "", "keyA"}
StoredUsers == {NULL, "alice"}

Init ==
    /\ storage \in [StorageKeys -> StoredTokens \cup StoredKeys \cup StoredUsers]
    /\ storage["accessToken"] \in StoredTokens
    /\ storage["apiKey"] \in StoredKeys
    /\ storage["user"] \in StoredUsers
    /\ call = IdleCall
    /\ svc = IdleSvc
    /\ server = ServerAtRest
    /\ feed = IdleFeed
    /\ login = IdleLogin
    /\ ui = IdlePage

Next ==
    \/ Get
    \/ Post
    \/ Put
    \/ Del
    \/ ApiClientDirect
    \/ FetchResolve
    \/ FetchReject
    \/ JsonSettle
    \/ OtherTabStoresSession
    \/ OtherTabStoresApiKey

Spec == Init /\ [][Next]_vars

-----------------------------------------------------------------------------
(* Text of the services: case folding, query strings, path segments *)

\* String.prototype.toLowerCase on atoms: the atoms of this model that hold
\* capital letters, and their lower-case forms.
LowerAtom(a) ==
    CASE a = "Unauthorized" -> "unauthorized"
      [] a = "Not Found" -> "not found"
      [] a = "Validation" -> "validation"
      [] a = "Already" -> "already"
      [] a = "Invalid" -> "invalid"
      [] a = "Password" -> "password"
      [] a = "User" -> "user"
      [] a = "Cat" -> "cat"
      [] OTHER -> a

toLowerCase(s) == [i \in 1..Len(s) |-> LowerAtom(s[i])]

\* The characters of an atom sequence as one string.
RECURSIVE Join(_)
Join(s) == IF Len(s) = 0 THEN "" ELSE s[1] \o Join([i \in 1..(Len(s) - 1) |-> s[i + 1]])

\* URLSearchParams serializes names and values as
\* application/x-www-form-urlencoded text.
FormEncodeAtom(a) ==
    CASE a = " " -> "+"
      [] a = "&" -> "%26"
      [] a = "+" -> "%2B"
      [] a = "=" -> "%3D"
      [] a = "#" -> "%23"
      [] OTHER -> a

FormEncode(s) == Join([i \in 1..Len(s) |-> FormEncodeAtom(s[i])])

\* new URLSearchParams({ ... }).toString(): name=value in insertion order,
\* joined by &.
RECURSIVE URLSearchParams(_)
URLSearchParams(pairs) ==
    IF pairs = <<>> THEN ""
    ELSE FormEncode(Head(pairs)[1]) \o "=" \o FormEncode(Head(pairs)[2])
         \o (IF Tail(pairs) = <<>> THEN "" ELSE "&" \o URLSearchParams(Tail(pairs)))

\* encodeURIComponent: an emoji is an atom named by its code point and becomes
\* the percent-encoded bytes of its UTF-8 form.
EncodeURIComponentAtom(a) ==
    CASE a = "U+1F44D" -> "%F0%9F%91%8D"
      [] a = "U+2764" -> "%E2%9D%A4"
      [] a = "U+FE0F" -> "%EF%B8%8F"
      [] a = " " -> "%20"
      [] a = "/" -> "%2F"
      [] OTHER -> a

encodeURIComponent(s) == Join([i \in 1..Len(s) |-> EncodeURIComponentAtom(s[i])])

-----------------------------------------------------------------------------
(* The posts and interactions services: what each function requests and what
   it makes of the API client's result *)

\* A request of a service function: the helper it calls, with what.
Request(helper, endpoint, body) == [helper |-> helper, endpoint |-> endpoint, body |-> body]

\* What a function's try/catch makes of a settled call: the error its catch
\* block caught (NothingThrown when none) and how the function ends.
Ends(caught, outcome) == [caught |-> caught, outcome |-> outcome]

\* error?.message
MessageOf(error) == IF "message" \in DOMAIN error THEN error.message ELSE JUndef

\* error?.message?.toLowerCase().includes(word)
LowerMessageIncludes(error, word) ==
    LET m == MessageOf(error)
    IN ~Nullish(m) /\ Includes(toLowerCase(m.v), word)

\* error.message?.includes(word)
MessageIncludes(error, word) ==
    LET m == MessageOf(error)
    IN ~Nullish(m) /\ Includes(m.v, word)

\* error.response?.status: the errors of this client have no response field.
ResponseStatusOf(error) ==
    IF "response" \in DOMAIN error THEN error.response.status ELSE 0

\* error?.message || fallback
MessageOr(error, fallback) ==
    IF Truthy(MessageOf(error)) THEN MessageOf(error) ELSE JStr(fallback)

\* response?.key
OptProp(v, key) == IF Nullish(v) THEN JUndef ELSE Prop(v, key)

\* Mutant: page comes before limit in the query.
getAllPostsRequestPageFirst(limit, page) ==
    Request("get",
            "/social/posts?" \o URLSearchParams(<< <<W("page"), NumText(page)>>,
                                                  <<W("limit"), NumText(limit)>>,
                                                  <<W("_author"), W("true")>>,
                                                  <<W("_reactions"), W("true")>>,
                                                  <<W("_comments"), W("true")>> >>),
            JUndef)

\* posts.ts, getAllPosts
getAllPostsRequest(limit, page) ==
    Request("get",
            "/social/posts?" \o URLSearchParams(<< <<W("limit"), NumText(limit)>>,
                                                  <<W("page"), NumText(page)>>,
                                                  <<W("_author"), W("true")>>,
                                                  <<W("_reactions"), W("true")>>,
                                                  <<W("_comments"), W("true")>> >>),
            JUndef)

\* return response; catch (error) { throw error; }
RethrowThen(o) ==
    IF o.kind = "return" THEN Ends(NothingThrown, Returned(o.value))
    ELSE Ends(o, o)

getAllPostsThen(o) == RethrowThen(o)

\* posts.ts, getSamplePosts: the five sample posts, here their ids, one page
\* of them and the page's meta.
SamplePostIds == <<1, 2, 3, 4, 5>>

\* Math.ceil(a / b) for a >= 0, b >= 1.
CeilDiv(a, b) == (a + b - 1) \div b

\* Array.prototype.slice(start, end) for 0 <= start <= end.
Slice(a, start, end) ==
    LET lo == IF start > Len(a) THEN Len(a) ELSE start
        hi == IF end > Len(a) THEN Len(a) ELSE end
    IN [i \in 1..(hi - lo) |-> a[lo + i]]

\* Mutant: the slice starts at page * limit.
getSamplePostsFromNextPage(limit, page) ==
    LET startIndex == page * limit
        endIndex == startIndex + limit
        paginatedPosts == Slice(SamplePostIds, startIndex, endIndex)
        pageCount == CeilDiv(Len(SamplePostIds), limit)
    IN JObj(<< <<W("data"), JArr([i \in 1..Len(paginatedPosts) |-> JNum(paginatedPosts[i])])>>,
               <<W("meta"),
                 JObj(<< <<W("currentPage"), JNum(page)>>,
                         <<W("pageCount"), JNum(pageCount)>>,
                         <<W("totalCount"), JNum(Len(SamplePostIds))>>,
                         <<W("isFirstPage"), JBool(page = 1)>>,
                         <<W("isLastPage"), JBool(page >= pageCount)>>,
                         <<W("previousPage"), IF page > 1 THEN JNum(page - 1) ELSE JNull>>,
                         <<W("nextPage"), IF page < pageCount THEN JNum(page + 1) ELSE JNull>> >>)>> >>)

getSamplePosts(limit, page) ==
    LET startIndex == (page - 1) * limit
        endIndex == startIndex + limit
        paginatedPosts == Slice(SamplePostIds, startIndex, endIndex)
        pageCount == CeilDiv(Len(SamplePostIds), limit)
    IN JObj(<< <<W("data"), JArr([i \in 1..Len(paginatedPosts) |-> JNum(paginatedPosts[i])])>>,
               <<W("meta"),
                 JObj(<< <<W("currentPage"), JNum(page)>>,
                         <<W("pageCount"), JNum(pageCount)>>,
                         <<W("totalCount"), JNum(Len(SamplePostIds))>>,
                         <<W("isFirstPage"), JBool(page = 1)>>,
                         <<W("isLastPage"), JBool(page >= pageCount)>>,
                         <<W("previousPage"), IF page > 1 THEN JNum(page - 1) ELSE JNull>>,
                         <<W("nextPage"), IF page < pageCount THEN JNum(page + 1) ELSE JNull>> >>)>> >>)

\* posts.ts, getPublicPosts: the sample posts, without a request.
getPublicPosts(limit, page) == getSamplePosts(limit, page)

\* posts.ts, getPostById
getPostByIdRequest(id) ==
    Request("get",
            "/social/posts/" \o id \o "?_author=true&_reactions=true&_comments=true",
            JUndef)

\* return response.data: reading a property of null throws inside the try.
getPostByIdThen(o) ==
    IF o.kind = "return"
    THEN IF Nullish(o.value) THEN Ends(TypeErrorNull, TypeErrorNull)
         ELSE Ends(NothingThrown, Returned(Prop(o.value, W("data"))))
    ELSE Ends(o, o)

\* posts.ts, searchPosts
searchPostsRequest(query, limit) ==
    Request("get",
            "/social/posts/search?" \o URLSearchParams(<< <<W("q"), query>>,
                                                         <<W("limit"), NumText(limit)>>,
                                                         <<W("_author"), W("true")>>,
                                                         <<W("_reactions"), W("true")>> >>),
            JUndef)

searchPostsThen(o) == RethrowThen(o)

\* interactions.ts, getPostComments
getPostCommentsRequest(postId, page, limit) ==
    Request("get",
            "/social/posts/" \o postId \o "/comments?page=" \o ToString(page)
                \o "&limit=" \o ToString(limit) \o "&_author=true",
            JUndef)

\* The empty comments page of getPostComments.
EmptyComments ==
    JObj(<< <<W("data"), JArr(<<>>)>>,
            <<W("meta"),
              JObj(<< <<W("isFirstPage"), JBool(TRUE)>>,
                      <<W("isLastPage"), JBool(TRUE)>>,
                      <<W("currentPage"), JNum(1)>>,
                      <<W("previousPage"), JNull>>,
                      <<W("nextPage"), JNull>>,
                      <<W("pageCount"), JNum(1)>>,
                      <<W("totalCount"), JNum(0)>> >>)>> >>)

\* Mutant: the catch block throws the error again.
getPostCommentsThenRethrow(o) ==
    IF o.kind = "return"
    THEN IF ~Truthy(o.value) \/ ~Truthy(OptProp(o.value, W("data")))
         THEN Ends(NothingThrown, Returned(EmptyComments))
         ELSE Ends(NothingThrown, Returned(o.value))
    ELSE Ends(o, o)

getPostCommentsThen(o) ==
    IF o.kind = "return"
    THEN IF ~Truthy(o.value) \/ ~Truthy(OptProp(o.value, W("data")))
         THEN Ends(NothingThrown, Returned(EmptyComments))
         ELSE Ends(NothingThrown, Returned(o.value))
    ELSE Ends(o, Returned(EmptyComments))

\* Mutant: replyToId is set whenever it is defined, the empty string included.
createCommentDataIfDefined(body, replyToId) ==
    IF ~Nullish(replyToId)
    THEN JObj(<< <<W("body"), body>>, <<W("replyToId"), replyToId>> >>)
    ELSE JObj(<< <<W("body"), body>> >>)

\* interactions.ts, createComment: const commentData = { body };
\* if (replyToId) commentData.replyToId = replyToId;
createCommentData(body, replyToId) ==
    IF Truthy(replyToId)
    THEN JObj(<< <<W("body"), body>>, <<W("replyToId"), replyToId>> >>)
    ELSE JObj(<< <<W("body"), body>> >>)

createCommentRequest(postId, body, replyToId) ==
    Request("post", "/social/posts/" \o postId \o "/comment",
            createCommentData(body, replyToId))

NotFoundText(before) == <<before, "not found", ".">>

\* Mutant: "not found" is looked for before "unauthorized".
createCommentCatchNotFoundFirst(error) ==
    IF LowerMessageIncludes(error, "not found")
    THEN PlainError(JStr(NotFoundText("The post you are trying to comment on was ")))
    ELSE IF LowerMessageIncludes(error, "unauthorized")
    THEN PlainError(JStr(<<"You must be logged in to comment on posts.">>))
    ELSE IF LowerMessageIncludes(error, "validation")
    THEN PlainError(JStr(<<"Comment text is required and cannot be empty.">>))
    ELSE PlainError(MessageOr(error, <<"Failed to create comment. Please try again.">>))

\* The catch block of createComment.
createCommentCatch(error) ==
    IF LowerMessageIncludes(error, "unauthorized")
    THEN PlainError(JStr(<<"You must be logged in to comment on posts.">>))
    ELSE IF LowerMessageIncludes(error, "not found")
    THEN PlainError(JStr(NotFoundText("The post you are trying to comment on was ")))
    ELSE IF LowerMessageIncludes(error, "validation")
    THEN PlainError(JStr(<<"Comment text is required and cannot be empty.">>))
    ELSE PlainError(MessageOr(error, <<"Failed to create comment. Please try again.">>))

InvalidResponseFormat ==
    PlainError(JStr(<<"Invalid response format from comment creation">>))

createCommentThen(o) ==
    IF o.kind = "return"
    THEN IF Truthy(OptProp(o.value, W("data")))
         THEN Ends(NothingThrown,
                   Returned(JObj(<< <<W("data"), OptProp(o.value, W("data"))>> >>)))
         ELSE IF Truthy(OptProp(o.value, W("id")))
         THEN Ends(NothingThrown, Returned(JObj(<< <<W("data"), o.value>> >>)))
         ELSE Ends(InvalidResponseFormat, createCommentCatch(InvalidResponseFormat))
    ELSE Ends(o, createCommentCatch(o))

\* interactions.ts, replyToComment
replyToCommentRequest(postId, parentCommentId, body) ==
    createCommentRequest(postId, body, parentCommentId)

\* interactions.ts, deleteComment
deleteCommentRequest(postId, commentId) ==
    Request("del", "/social/posts/" \o postId \o "/comment/" \o commentId, JUndef)

deleteCommentCatch(error) ==
    IF LowerMessageIncludes(error, "unauthorized")
    THEN PlainError(JStr(<<"You can only delete your own comments.">>))
    ELSE IF LowerMessageIncludes(error, "not found")
    THEN PlainError(JStr(NotFoundText("The comment you are trying to delete was ")))
    ELSE PlainError(MessageOr(error, <<"Failed to delete comment. Please try again.">>))

deleteCommentThen(o) ==
    IF o.kind = "return" THEN Ends(NothingThrown, Returned(JUndef))
    ELSE Ends(o, deleteCommentCatch(o))

\* interactions.ts, reactToPost
reactToPostRequest(postId, symbol) ==
    Request("put", "/social/posts/" \o postId \o "/react/" \o encodeURIComponent(symbol),
            JObj(<<>>))

reactToPostCatch(error) ==
    IF LowerMessageIncludes(error, "unauthorized")
    THEN PlainError(JStr(<<"You must be logged in to react to posts.">>))
    ELSE IF LowerMessageIncludes(error, "not found")
    THEN PlainError(JStr(NotFoundText("The post you are trying to react to was ")))
    ELSE PlainError(MessageOr(error, <<"Failed to react to post. Please try again.">>))

reactToPostThen(o) ==
    IF o.kind = "return" THEN Ends(NothingThrown, Returned(JUndef))
    ELSE Ends(o, reactToPostCatch(o))

\* interactions.ts, removeReaction
removeReactionRequest(postId, symbol) ==
    Request("del", "/social/posts/" \o postId \o "/react/" \o encodeURIComponent(symbol),
            JUndef)

removeReactionCatch(error) ==
    IF LowerMessageIncludes(error, "unauthorized")
    THEN PlainError(JStr(<<"You must be logged in to remove reactions.">>))
    ELSE IF LowerMessageIncludes(error, "not found")
    THEN PlainError(JStr(NotFoundText("The reaction you are trying to remove was ")))
    ELSE PlainError(MessageOr(error, <<"Failed to remove reaction. Please try again.">>))

removeReactionThen(o) ==
    IF o.kind = "return" THEN Ends(NothingThrown, Returned(JUndef))
    ELSE Ends(o, removeReactionCatch(o))

\* Mutant: a failed add is never followed by a remove.
ReactionExistsNever(error) == FALSE

\* interactions.ts, toggleReaction: the condition under which the failed add
\* is followed by a remove.
ReactionExists(error) ==
    \/ MessageIncludes(error, "already")
    \/ MessageIncludes(error, "exist")
    \/ ResponseStatusOf(error) = 400
    \/ ResponseStatusOf(error) = 409

\* interactions.ts, getPostReactions
getPostReactionsRequest(postId) ==
    Request("get", "/social/posts/" \o postId \o "?_reactions=true", JUndef)

getPostReactionsThen(o) ==
    IF o.kind = "return"
    THEN LET data == OptProp(o.value, W("data"))
         IN Ends(NothingThrown, Returned(IF Truthy(data) THEN data ELSE JArr(<<>>)))
    ELSE Ends(o, Returned(JArr(<<>>)))

-----------------------------------------------------------------------------
(* A service invocation, step by step *)

\* The invocation: the function and its arguments, the await it stands at
\* (toggleReaction has two: "add", then "remove"), the API client calls it has
\* made and the response each ended with (NoResponse: none), whether the
\* server held the reaction when a toggle began, the error its catch block caught
\* (for toggleReaction: the error reactToPost threw), and how it ended.
Invocation(fn, args, stage, calls, before) ==
    [pc |-> "await", fn |-> fn, args |-> args, stage |-> stage, calls |-> calls,
     answers |-> <<>>, before |-> before, caught |-> NothingThrown, outcome |-> Pending]

\* helper(endpoint, body), as the four helpers of client.ts are called.
Dispatch(req, store) ==
    CASE req.helper = "get" -> get(req.endpoint, store)
      [] req.helper = "post" -> [post(req.endpoint, req.body, store) EXCEPT !.arg = req.body]
      [] req.helper = "put" -> [put(req.endpoint, req.body, store) EXCEPT !.arg = req.body]
      [] req.helper = "del" -> del(req.endpoint, store)

\* The function returns or throws.
Finish(s, ends) == [s EXCEPT !.pc = "done", !.caught = ends.caught, !.outcome = ends.outcome]

\* What the functions with one await make of the settled call.
Then(fn, o) ==
    CASE fn = "getAllPosts" -> getAllPostsThen(o)
      [] fn = "getPostById" -> getPostByIdThen(o)
      [] fn = "searchPosts" -> searchPostsThen(o)
      [] fn = "getPostComments" -> getPostCommentsThen(o)
      [] fn = "createComment" -> createCommentThen(o)
      [] fn = "replyToComment" -> createCommentThen(o)
      [] fn = "deleteComment" -> deleteCommentThen(o)
      [] fn = "reactToPost" -> reactToPostThen(o)
      [] fn = "removeReaction" -> removeReactionThen(o)
      [] fn = "getPostReactions" -> getPostReactionsThen(o)

\* toggleReaction once reactToPost has settled: true, or the remove, or the
\* error of the add thrown again.
toggleReactionAfterAdd(s, o) ==
    LET add == reactToPostThen(o) IN
    IF add.outcome.kind = "return"
    THEN Finish(s, Ends(NothingThrown, Returned(JBool(TRUE))))
    ELSE IF ReactionExists(add.outcome)
    THEN [s EXCEPT !.stage = "remove", !.calls = @ + 1, !.caught = add.outcome]
    ELSE Finish(s, Ends(add.outcome, add.outcome))

\* toggleReaction once removeReaction has settled: false, or the remove's error.
toggleReactionAfterRemove(s, o) ==
    LET remove == removeReactionThen(o) IN
    IF remove.outcome.kind = "return"
    THEN [s EXCEPT !.pc = "done", !.outcome = Returned(JBool(FALSE))]
    ELSE [s EXCEPT !.pc = "done", !.outcome = remove.outcome]

\* The invocation after the call it awaited has settled with outcome o.
Resume(s, o) ==
    IF s.fn = "toggleReaction"
    THEN IF s.stage = "add" THEN toggleReactionAfterAdd(s, o)
         ELSE toggleReactionAfterRemove(s, o)
    ELSE Finish(s, Then(s.fn, o))

\* What the server may answer to a request of a service.
K(name) == <<Quote, name, Quote, ":">>
MessageBody(message) == ErrorsBody(<<"{">> \o K("message") \o <<Quote>> \o message \o <<Quote, "}">>)
JsonType == ContentTypes[3]
HtmlType == ContentTypes[2]

ServerAnswers ==
    << Response(200, JsonType,
                <<"{">> \o K("data") \o <<"[", "{">> \o K("id") \o M("c1") \o <<"}", "]", ",">>
                        \o K("meta") \o <<"{">> \o K("currentPage") \o <<"2", "}", "}">>),
       Response(200, JsonType, <<"{">> \o K("data") \o <<"{">> \o K("id") \o M("c1") \o <<"}", "}">>),
       Response(201, JsonType, <<"{">> \o K("id") \o M("c1") \o <<",">> \o K("body") \o M("hello") \o <<"}">>),
       Response(200, JsonType, <<"{", "}">>),
       Response(200, JsonType, W("null")),
       Response(200, JsonType, <<"{">> \o K("data") \o <<"[", "]", "}">>),
       Response(200, JsonType, <<"{">> \o K("data") \o <<"null", "}">>),
       Response(204, JNull, <<>>),
       Response(200, HtmlType, W("<html>")),
       Response(200, JsonType, W("<html>")),
       Response(400, JsonType, MessageBody(<<"Reaction ", "already", " ", "exist", "s">>)),
       Response(409, JsonType, MessageBody(W("Conflict"))),
       Response(409, JsonType, <<"{", "}">>),
       Response(400, JsonType, MessageBody(<<"Already", " reacted">>)),
       Response(401, JsonType, MessageBody(W("Unauthorized"))),
       Response(404, JsonType, MessageBody(<<"Post ", "Not Found">>)),
       Response(400, JsonType, MessageBody(<<"Validation", " failed">>)),
       Response(401, JsonType, MessageBody(<<"Unauthorized", ": post ", "not found">>)),
       Response(404, JsonType, MessageBody(<<"post ", "not found", ", ", "validation", " skipped">>)),
       Response(500, HtmlType, W("<html>")) >>

\* The server keeps the reaction of an accepted add and drops it on an
\* accepted remove.
ServerAfter(srv, s, c, resp) ==
    IF s.fn \in {"reactToPost", "removeReaction", "toggleReaction"} /\ ResponseOk(resp)
    THEN LET reaction == <<s.args.postId, s.args.symbol>> IN
         IF c.config.method = "PUT"
         THEN [srv EXCEPT !.reactions = @ \cup {reaction}]
         ELSE [srv EXCEPT !.reactions = @ \ {reaction}]
    ELSE srv

\* The server holds this user's reaction with the symbol on the post.
Reacted(srv, postId, symbol) == <<postId, symbol>> \in srv.reactions

\* The arguments the functions are called with.
PostIds == {"42"}
CommentIds == {"7"}
Limits == {1, 2, 15}
Pages == {1, 2, 3}
CommentTexts == {W("hello")}
ReplyToIds == << JUndef, JStr(<<>>), JStr(W("7")) >>
Symbols == << <<"U+1F44D">>, <<"U+2764", "U+FE0F">> >>
Queries == << W("cat"), <<"cat", " ", "&", " ", "dog">> >>

SvcFree == svc.pc \in {"idle", "done"} /\ CallFree

\* The function is called and runs up to its await of the API client.
Invoke(fn, args, req) ==
    /\ svc' = Invocation(fn, args, IF fn = "toggleReaction" THEN "add" ELSE "only",
                         1,
                         fn = "toggleReaction" /\ Reacted(server, args.postId, args.symbol))
    /\ call' = Dispatch(req, storage)
    /\ UNCHANGED <<storage, server, feed, login, ui>>

GetAllPosts ==
    /\ SvcFree
    /\ \E limit \in Limits, page \in Pages :
           Invoke("getAllPosts", [limit |-> limit, page |-> page],
                  getAllPostsRequest(limit, page))

\* getPublicPosts returns at once.
GetPublicPosts ==
    /\ SvcFree
    /\ \E limit \in Limits, page \in Pages :
           svc' = Finish(Invocation("getPublicPosts", [limit |-> limit, page |-> page],
                                    "only", 0, FALSE),
                         Ends(NothingThrown, Returned(getPublicPosts(limit, page))))
    /\ UNCHANGED <<storage, call, server, feed, login, ui>>

GetPostById ==
    /\ SvcFree
    /\ \E id \in PostIds : Invoke("getPostById", [id |-> id], getPostByIdRequest(id))

SearchPosts ==
    /\ SvcFree
    /\ \E q \in 1..Len(Queries), limit \in Limits :
           Invoke("searchPosts", [query |-> Queries[q], limit |-> limit],
                  searchPostsRequest(Queries[q], limit))

GetPostComments ==
    /\ SvcFree
    /\ \E postId \in PostIds, page \in Pages, limit \in Limits :
           Invoke("getPostComments", [postId |-> postId, page |-> page, limit |-> limit],
                  getPostCommentsRequest(postId, page, limit))

CreateComment ==
    /\ SvcFree
    /\ \E postId \in PostIds, text \in CommentTexts, r \in 1..Len(ReplyToIds) :
           Invoke("createComment",
                  [postId |-> postId, body |-> JStr(text), replyToId |-> ReplyToIds[r]],
                  createCommentRequest(postId, JStr(text), ReplyToIds[r]))

ReplyToComment ==
    /\ SvcFree
    /\ \E postId \in PostIds, text \in CommentTexts, parent \in CommentIds :
           Invoke("replyToComment",
                  [postId |-> postId, body |-> JStr(text), replyToId |-> JStr(W(parent))],
                  replyToCommentRequest(postId, JStr(W(parent)), JStr(text)))

DeleteComment ==
    /\ SvcFree
    /\ \E postId \in PostIds, commentId \in CommentIds :
           Invoke("deleteComment", [postId |-> postId, commentId |-> commentId],
                  deleteCommentRequest(postId, commentId))

ReactToPost ==
    /\ SvcFree
    /\ \E postId \in PostIds, y \in 1..Len(Symbols) :
           Invoke("reactToPost", [postId |-> postId, symbol |-> Symbols[y]],
                  reactToPostRequest(postId, Symbols[y]))

RemoveReaction ==
    /\ SvcFree
    /\ \E postId \in PostIds, y \in 1..Len(Symbols) :
           Invoke("removeReaction", [postId |-> postId, symbol |-> Symbols[y]],
                  removeReactionRequest(postId, Symbols[y]))

ToggleReaction ==
    /\ SvcFree
    /\ \E postId \in PostIds, y \in 1..Len(Symbols) :
           Invoke("toggleReaction", [postId |-> postId, symbol |-> Symbols[y]],
                  reactToPostRequest(postId, Symbols[y]))

GetPostReactions ==
    /\ SvcFree
    /\ \E postId \in PostIds : Invoke("getPostReactions", [postId |-> postId],
                                      getPostReactionsRequest(postId))

\* The server answers the request in flight.
ServerResponds ==
    /\ call.pc = "fetch"
    /\ \E i \in 1..Len(ServerAnswers) :
           /\ call' = AfterFetch(call, ServerAnswers[i])
           /\ server' = ServerAfter(server, svc, call, ServerAnswers[i])
    /\ UNCHANGED <<storage, svc, feed, login, ui>>

\* The awaited call has settled: the function goes on, to its end or, in
\* toggleReaction, to the remove.
ServiceResumes ==
    /\ svc.pc = "await"
    /\ call.pc = "done"
    /\ LET s == Resume([svc EXCEPT !.answers = Append(@, call.response)],
                       call.outcome)
       IN /\ svc' = s
          /\ call' = IF s.pc = "await"
                     THEN Dispatch(removeReactionRequest(s.args.postId, s.args.symbol), storage)
                     ELSE call
    /\ UNCHANGED <<storage, server, feed, login, ui>>

\* The services run in a session that is logged in.
SvcInit ==
    /\ storage = [k \in StorageKeys |->
                    CASE k = "accessToken" -> "tokA" [] k = "apiKey" -> "keyA" [] OTHER -> "alice"]
    /\ call = IdleCall
    /\ svc = IdleSvc
    /\ server = ServerAtRest
    /\ feed = IdleFeed
    /\ login = IdleLogin
    /\ ui = IdlePage

SvcNext ==
    \/ GetAllPosts
    \/ GetPublicPosts
    \/ GetPostById
    \/ SearchPosts
    \/ GetPostComments
    \/ CreateComment
    \/ ReplyToComment
    \/ DeleteComment
    \/ ReactToPost
    \/ RemoveReaction
    \/ ToggleReaction
    \/ GetPostReactions
    \/ ServerResponds
    \/ FetchReject
    \/ JsonSettle
    \/ ServiceResumes

SvcSpec == SvcInit /\ [][SvcNext]_vars

-----------------------------------------------------------------------------
(* The feed page: the comment and reaction handlers of a post card *)

\* What an API client call made now would end with: the network fails
\* (answer 0), or the server sends ServerAnswers[answer].
ClientOutcome(req, store, answer) ==
    LET c0 == Dispatch(req, store) IN
    IF answer = 0 THEN Thrown(c0, TypeErrorNetwork).outcome
    ELSE LET c1 == AfterFetch(c0, ServerAnswers[answer]) IN
         IF c1.pc = "json"
         THEN AfterJson(c1, JSONparse(c1.response.body)).outcome
         ELSE c1.outcome

Answers == 0..Len(ServerAnswers)

\* await createComment(postId, text, replyToId)
createCommentOutcome(postId, text, replyToId, store, answer) ==
    createCommentThen(
        ClientOutcome(createCommentRequest(postId, JStr(text), replyToId), store, answer)).outcome

\* await deleteComment(postId, commentId)
deleteCommentOutcome(postId, commentId, store, answer) ==
    deleteCommentThen(ClientOutcome(deleteCommentRequest(postId, commentId), store, answer)).outcome

\* await toggleReaction(postId, symbol): the add ends with ServerAnswers[add]
\* and the remove, when there is one, with ServerAnswers[remove].
toggleReactionOutcome(postId, symbol, store, add, remove) ==
    LET s0 == Invocation("toggleReaction", [postId |-> postId, symbol |-> symbol],
                         "add", 1, FALSE)
        s1 == toggleReactionAfterAdd(
                  s0, ClientOutcome(reactToPostRequest(postId, symbol), store, add))
    IN IF s1.pc = "done" THEN s1.outcome
       ELSE toggleReactionAfterRemove(
                s1, ClientOutcome(removeReactionRequest(postId, symbol), store, remove)).outcome

\* String.prototype.trim; the atom " " is the white space of a text.
RECURSIVE trimStart(_)
trimStart(s) == IF s # <<>> /\ Head(s) = " " THEN trimStart(Tail(s)) ELSE s
RECURSIVE trimEnd(_)
trimEnd(s) == IF s # <<>> /\ s[Len(s)] = " " THEN trimEnd(SubSeq(s, 1, Len(s) - 1)) ELSE s
trim(s) == trimEnd(trimStart(s))

\* String.prototype.length: the characters of each atom, added up.
LongText == "a text of 281 characters"
AtomLength(a) ==
    CASE a = " " -> 1
      [] a = "hello" -> 5
      [] a = LongText -> 281
      [] a = "pass567" -> 7
      [] a = "pass5678" -> 8
      [] OTHER -> 1
RECURSIVE TextLength(_)
TextLength(s) == IF s = <<>> THEN 0 ELSE AtomLength(Head(s)) + TextLength(Tail(s))

MaxCommentLength == 280

\* What the user may have typed into the comment input or a reply input.
InputTexts == { <<>>, <<" ">>, <<" ", "hello", " ">>, <<"hello">>, <<LongText>> }

\* The most the counts of the card grow to, and the most handlers that are
\* awaiting their request at a time.
MaxCount == 3
MaxInFlight == 2

NoHandler == [handler |-> "none", result |-> "none"]

\* The page: the two counts the card displays, the class of the like button,
\* the value of the comment input, the disabled property of the comment
\* submit button, the comment items in the list, the handlers that are
\* awaiting their request (with the text they sent), and the handler that
\* ended last and how. An alert and a notification leave nothing behind in
\* the page.
FeedPage(reactionCount, commentCount) ==
    [pc |-> "open", reactionCount |-> reactionCount, commentCount |-> commentCount,
     reacted |-> FALSE, input |-> <<>>, submitDisabled |-> FALSE, items |-> 0,
     inv |-> <<>>, last |-> NoHandler]

Awaiting(handler, text) == [handler |-> handler, text |-> text]

\* The sequence without its element at i.
Without(s, i) == SubSeq(s, 1, i - 1) \o SubSeq(s, i + 1, Len(s))

\* The handler awaiting at i has ended.
Ended(f, i, result) ==
    [f EXCEPT !.inv = Without(@, i),
              !.last = [handler |-> f.inv[i].handler, result |-> result]]

\* Math.max(0, currentCount - 1)
Decremented(count) == IF count - 1 > 0 THEN count - 1 ELSE 0

\* FeedPage.ts, addCommentToUI: one more comment item in the list.
addCommentToUI(f) == [f EXCEPT !.items = @ + 1]

\* FeedPage.ts, submitComment, up to the await of createComment.
submitCommentStart(f) ==
    LET commentText == trim(f.input) IN
    IF commentText = <<>> THEN f
    ELSE IF TextLength(commentText) > MaxCommentLength
    THEN f
    ELSE [f EXCEPT !.submitDisabled = TRUE,
                   !.inv = Append(@, Awaiting("submitComment", commentText))]

\* Mutant: the count of comments goes up whatever the request ended with.
submitCommentEndCountsAlways(f, i, o) ==
    LET g == [f EXCEPT !.submitDisabled = FALSE, !.commentCount = @ + 1] IN
    IF o.kind = "return"
    THEN Ended([addCommentToUI(g) EXCEPT !.input = <<>>], i, "created")
    ELSE Ended(g, i, "failed")

\* FeedPage.ts, submitComment, from the settled createComment on: the try
\* block's rest or the catch block, then the finally block.
submitCommentEnd(f, i, o) ==
    LET g == [f EXCEPT !.submitDisabled = FALSE] IN
    IF o.kind = "return"
    THEN Ended([addCommentToUI(g) EXCEPT !.input = <<>>, !.commentCount = @ + 1],
               i, "created")
    ELSE Ended(g, i, "failed")

\* FeedPage.ts, submitReply, up to the await of createComment.
submitReplyStart(f, replyInput) ==
    LET replyText == trim(replyInput) IN
    IF replyText = <<>> THEN f
    ELSE IF TextLength(replyText) > MaxCommentLength
    THEN f
    ELSE [f EXCEPT !.inv = Append(@, Awaiting("submitReply", replyText))]

\* FeedPage.ts, submitReply, from the settled createComment on.
submitReplyEnd(f, i, o) ==
    IF o.kind = "return"
    THEN Ended([addCommentToUI(f) EXCEPT !.commentCount = @ + 1], i, "replied")
    ELSE Ended(f, i, "failed")

\* FeedPage.ts, deleteCommentFunction, up to the await of deleteComment.
deleteCommentFunctionStart(f, confirmed) ==
    IF ~confirmed THEN f
    ELSE [f EXCEPT !.inv = Append(@, Awaiting("deleteCommentFunction", <<>>))]

\* FeedPage.ts, deleteCommentFunction, from the settled deleteComment on.
deleteCommentFunctionEnd(f, i, o) ==
    IF o.kind = "return"
    THEN Ended([f EXCEPT !.items = Decremented(@), !.commentCount = Decremented(@)],
               i, "deleted")
    ELSE Ended(f, i, "failed")

\* FeedPage.ts, handleToggleReaction, up to the await of toggleReaction.
handleToggleReactionStart(f, loggedIn) ==
    IF ~loggedIn THEN f
    ELSE [f EXCEPT !.inv = Append(@, Awaiting("handleToggleReaction", <<>>))]

\* Mutant: the count is read from the server when the toggle has ended.
handleToggleReactionEndRereads(f, i, o) ==
    IF o.kind = "return"
    THEN Ended([f EXCEPT !.reactionCount = Cardinality(server.reactions),
                         !.reacted = Truthy(o.value)],
               i, IF Truthy(o.value) THEN "added" ELSE "removed")
    ELSE Ended(f, i, "failed")

\* FeedPage.ts, handleToggleReaction, from the settled toggleReaction on.
handleToggleReactionEnd(f, i, o) ==
    IF o.kind = "return"
    THEN LET wasAdded == Truthy(o.value) IN
         Ended([f EXCEPT !.reactionCount = IF wasAdded THEN @ + 1 ELSE Decremented(@),
                         !.reacted = wasAdded],
               i, IF wasAdded THEN "added" ELSE "removed")
    ELSE Ended(f, i, "failed")

\* The post of the card, the symbol of its like button, the comment of a
\* reply or a delete.
CardPostId == "42"
CardSymbol == Symbols[2]
CardCommentId == "7"

\* The session of the page: localStorage as the login left it.
SessionStore ==
    [k \in StorageKeys |->
        CASE k = "accessToken" -> "tokA" [] k = "apiKey" -> "keyA" [] OTHER -> "alice"]

\* The trimmed texts a handler may send.
SentTexts == { trim(text) : text \in InputTexts } \ { <<>> }

\* What the awaited service call of each handler ends with, by the answer of
\* the server.
CommentOutcomes ==
    [text \in SentTexts |-> [answer \in Answers |->
        createCommentOutcome(CardPostId, text, JUndef, SessionStore, answer)]]
ReplyOutcomes ==
    [text \in SentTexts |-> [answer \in Answers |->
        createCommentOutcome(CardPostId, text, JStr(W(CardCommentId)), SessionStore, answer)]]
DeleteOutcomes ==
    [answer \in Answers |->
        deleteCommentOutcome(CardPostId, CardCommentId, SessionStore, answer)]
ToggleOutcomes ==
    [add \in Answers |-> [remove \in Answers |->
        toggleReactionOutcome(CardPostId, CardSymbol, SessionStore, add, remove)]]

\* The answers to a toggle: the answer to the add and, when the add is followed
\* by a remove, the answer to the remove (0 stands where there is none).
ToggleRemoves ==
    [add \in Answers |->
        toggleReactionAfterAdd(
            Invocation("toggleReaction", [postId |-> CardPostId, symbol |-> CardSymbol],
                       "add", 1, FALSE),
            ClientOutcome(reactToPostRequest(CardPostId, CardSymbol), SessionStore, add)
        ).pc = "await"]
ToggleAnswers ==
    { answers \in Answers \X Answers : answers[2] = 0 \/ ToggleRemoves[answers[1]] }

\* A handler may start: the page is open, and the bounds leave room.
MayStart ==
    /\ feed.pc = "open"
    /\ Len(feed.inv) < MaxInFlight
    /\ feed.reactionCount + Len(feed.inv) < MaxCount
    /\ feed.commentCount + Len(feed.inv) < MaxCount
    /\ feed.items + Len(feed.inv) < MaxCount

AwaitingAt(i, handler) == i \in 1..Len(feed.inv) /\ feed.inv[i].handler = handler

\* The user edits the comment input.
TypeComment ==
    /\ feed.pc = "open"
    /\ \E text \in InputTexts : feed' = [feed EXCEPT !.input = text]
    /\ UNCHANGED <<storage, call, svc, server, login, ui>>

\* The user clicks the comment submit button of the card; a disabled button
\* takes no click.
ClickSubmit ==
    /\ MayStart
    /\ ~feed.submitDisabled
    /\ feed' = submitCommentStart(feed)
    /\ UNCHANGED <<storage, call, svc, server, login, ui>>

\* The user presses Enter in the comment input of the card.
EnterInCommentInput ==
    /\ MayStart
    /\ feed' = submitCommentStart(feed)
    /\ UNCHANGED <<storage, call, svc, server, login, ui>>

\* The createComment of a submitComment settles.
SubmitCommentSettles ==
    /\ \E i \in 1..Len(feed.inv), answer \in Answers :
           /\ AwaitingAt(i, "submitComment")
           /\ feed' = submitCommentEnd(feed, i, CommentOutcomes[feed.inv[i].text][answer])
    /\ UNCHANGED <<storage, call, svc, server, login, ui>>

\* The user sends the reply form of a comment item.
SendReply ==
    /\ MayStart
    /\ feed.items > 0
    /\ \E replyInput \in InputTexts : feed' = submitReplyStart(feed, replyInput)
    /\ UNCHANGED <<storage, call, svc, server, login, ui>>

\* The createComment of a submitReply settles.
SubmitReplySettles ==
    /\ \E i \in 1..Len(feed.inv), answer \in Answers :
           /\ AwaitingAt(i, "submitReply")
           /\ feed' = submitReplyEnd(feed, i, ReplyOutcomes[feed.inv[i].text][answer])
    /\ UNCHANGED <<storage, call, svc, server, login, ui>>

\* The user clicks Delete on a comment item, which only the user's own
\* comments have, and answers the confirm dialog.
ClickDelete ==
    /\ MayStart
    /\ feed.items > 0
    /\ TruthyStr(getLocalItem(storage, "user"))
    /\ \E confirmed \in BOOLEAN : feed' = deleteCommentFunctionStart(feed, confirmed)
    /\ UNCHANGED <<storage, call, svc, server, login, ui>>

\* The deleteComment of a deleteCommentFunction settles.
DeleteCommentSettles ==
    /\ \E i \in 1..Len(feed.inv), answer \in Answers :
           /\ AwaitingAt(i, "deleteCommentFunction")
           /\ feed' = deleteCommentFunctionEnd(feed, i, DeleteOutcomes[answer])
    /\ UNCHANGED <<storage, call, svc, server, login, ui>>

\* The user clicks the like button of the card; isLoggedIn() answers.
ClickLike ==
    /\ MayStart
    /\ \E loggedIn \in BOOLEAN : feed' = handleToggleReactionStart(feed, loggedIn)
    /\ UNCHANGED <<storage, call, svc, server, login, ui>>

\* The toggleReaction of a handleToggleReaction settles.
ToggleReactionSettles ==
    /\ \E i \in 1..Len(feed.inv), answers \in ToggleAnswers :
           /\ AwaitingAt(i, "handleToggleReaction")
           /\ feed' = handleToggleReactionEnd(feed, i, ToggleOutcomes[answers[1]][answers[2]])
    /\ UNCHANGED <<storage, call, svc, server, login, ui>>

\* The page shows a card whose counts are those of the post; the session does
\* not change while it is shown.
FeedInit ==
    /\ storage = SessionStore
    /\ call = IdleCall
    /\ svc = IdleSvc
    /\ server = ServerAtRest
    /\ \E reactionCount \in 0..1, commentCount \in 0..1 :
           feed = FeedPage(reactionCount, commentCount)
    /\ login = IdleLogin
    /\ ui = IdlePage

FeedNext ==
    \/ TypeComment
    \/ ClickSubmit
    \/ EnterInCommentInput
    \/ SubmitCommentSettles
    \/ SendReply
    \/ SubmitReplySettles
    \/ ClickDelete
    \/ DeleteCommentSettles
    \/ ClickLike
    \/ ToggleReactionSettles

FeedSpec == FeedInit /\ [][FeedNext]_vars

-----------------------------------------------------------------------------
(* The login page: the submit handler of the login form *)

MinPasswordLength == 8

\* String(value), as a template literal and localStorage.setItem make it.
StringOf(v) ==
    CASE v.t = "str" -> Join(v.v)
      [] v.t = "undef" -> "undefined"
      [] v.t = "null" -> "null"
      [] v.t = "num" -> Join(NumText(v.v))
      [] v.t = "bool" -> IF v.v THEN "true" ELSE "false"
      [] OTHER -> "[object Object]"

\* value.length: of an array and of a string; undefined (here -1, which no
\* comparison with > 0 tells from undefined) otherwise.
LengthOf(v) ==
    CASE v.t = "arr" -> Len(v.v)
      [] v.t = "str" -> TextLength(v.v)
      [] OTHER -> -1

\* email.endsWith('@stud.noroff.no')
EndsWithStudNoroff(email) ==
    /\ Len(email) >= 2
    /\ email[Len(email) - 1] = "@"
    /\ email[Len(email)] = "stud.noroff.no"

\* The page: where the handler stands ("form": it is not running), the body
\* of the login request, the text and colour of the message element, the
\* disabled property of the submit button, the parsed login response, how the
\* last run of the handler ended, the Authorization header of the API key
\* request and how that request ended, whether the navbar was refreshed and
\* whether the redirect to /feed is scheduled.
LoginPage ==
    [pc |-> "form", request |-> <<>>, formError |-> "", color |-> "red",
     submitDisabled |-> FALSE, result |-> JUndef, outcome |-> "none",
     authorization |-> NULL, apiKey |-> "none", navbarRefreshed |-> FALSE,
     redirect |-> FALSE]

\* LogInPage.ts, finally: the button is enabled again, the handler has ended.
LoginFinally(l, outcome) ==
    [l EXCEPT !.pc = "form", !.submitDisabled = FALSE, !.outcome = outcome]

\* LogInPage.ts, the submit handler up to await loginUser(loginData).
LoginSubmit(l, emailValue, password) ==
    LET email == trim(emailValue)
        l0 == [l EXCEPT !.formError = "", !.color = "red", !.result = JUndef,
                        !.authorization = NULL, !.apiKey = "none"]
        Invalid(text) == [l0 EXCEPT !.formError = text, !.outcome = "invalid"]
    IN IF email = <<>> /\ password = <<>>
       THEN Invalid("Please enter both email and password.")
       ELSE IF email = <<>>
       THEN Invalid("Please enter your email address.")
       ELSE IF password = <<>>
       THEN Invalid("Please enter your password.")
       ELSE IF ~Includes(email, "@")
       THEN Invalid("Please enter a valid email address.")
       ELSE IF ~EndsWithStudNoroff(email)
       THEN Invalid("Please use your @stud.noroff.no email address.")
       ELSE IF TextLength(password) < MinPasswordLength
       THEN Invalid("Password must be at least 8 characters long.")
       ELSE [l0 EXCEPT !.pc = "loginUser",
                       !.submitDisabled = TRUE,
                       !.outcome = "pending",
                       !.request = JSONstringify(
                           JObj(<< <<W("email"), JStr(email)>>,
                                   <<W("password"), JStr(password)>> >>))]

\* LogInPage.ts, the message for a response with errors.
LoginErrorText(errors) ==
    LET first == Index0(errors)
        message == OptProp(first, W("message"))
        errorMessage == IF Truthy(message) THEN message.v ELSE <<"Login failed.">>
        lower == toLowerCase(errorMessage)
    IN IF Includes(lower, "email")
       THEN " Email address not found. Please check your email or register for an account."
       ELSE IF Includes(lower, "password")
       THEN " Incorrect password. Please check your password and try again."
       ELSE IF Includes(lower, "user") /\ Includes(lower, "not")
       THEN " No account found with this email. Please register first."
       ELSE IF Includes(lower, "invalid")
       THEN " Invalid login credentials. Please check your email and password."
       ELSE IF Includes(lower, "credentials")
       THEN " Invalid email or password. Please double-check your credentials."
       ELSE " " \o Join(errorMessage)

\* LogInPage.ts, catch (error)
LoginCatch(l, error) ==
    LoginFinally(
        [l EXCEPT !.formError =
            IF error.kind = "TypeError" /\ MessageIncludes(error, "fetch")
            THEN "Network error. Please check your internet connection and try again."
            ELSE "Something went wrong. Please try again in a moment."],
        IF error = TypeErrorNetwork THEN "network" ELSE "failed")

\* The page and the store together.
PageAndStore(l, store) == [login |-> l, storage |-> store]

\* result.errors && result.errors.length > 0
HasLoginErrors(result) ==
    Truthy(Prop(result, W("errors"))) /\ LengthOf(Prop(result, W("errors"))) > 0

\* LogInPage.ts: the access token and the name of the response are stored,
\* each when it is truthy.
StoreLoginData(store, data) ==
    LET accessToken == Prop(data, W("accessToken"))
        name == Prop(data, W("name"))
        s1 == IF Truthy(accessToken)
              THEN setLocalItem(store, "accessToken", StringOf(accessToken))
              ELSE store
    IN IF Truthy(name) THEN setLocalItem(s1, "user", StringOf(name)) ELSE s1

\* Mutant: the data of the response is stored before its errors are looked at.
LoginUserThenStoresFirst(l, store, resp) ==
    LET parsed == JSONparse(resp.body)
        result == parsed.val
        l1 == [l EXCEPT !.result = result]
    IN IF ~parsed.ok THEN PageAndStore(LoginCatch(l, SyntaxErrorJSON), store)
       ELSE IF Nullish(result) THEN PageAndStore(LoginCatch(l1, TypeErrorNull), store)
       ELSE IF Truthy(Prop(result, W("data")))
       THEN PageAndStore(
                [l1 EXCEPT !.pc = "fetchApiKey",
                           !.authorization =
                               "Bearer " \o StringOf(Prop(Prop(result, W("data")),
                                                          W("accessToken")))],
                StoreLoginData(store, Prop(result, W("data"))))
       ELSE IF HasLoginErrors(result)
       THEN PageAndStore(
                LoginFinally([l1 EXCEPT !.formError =
                                 LoginErrorText(Prop(result, W("errors")))],
                             "errors"),
                store)
       ELSE PageAndStore(
                LoginFinally([l1 EXCEPT !.formError = "Unexpected response from server."],
                             "unexpected"),
                store)

\* client.ts, loginUser, and LogInPage.ts from the settled loginUser up to
\* await fetchApiKey(accessToken), or to the end of the handler: the response
\* has arrived and response.json() has read it.
LoginUserThen(l, store, resp) ==
    LET parsed == JSONparse(resp.body)
        result == parsed.val
        l1 == [l EXCEPT !.result = result]
    IN IF ~parsed.ok THEN PageAndStore(LoginCatch(l, SyntaxErrorJSON), store)
       ELSE IF Nullish(result) THEN PageAndStore(LoginCatch(l1, TypeErrorNull), store)
       ELSE IF HasLoginErrors(result)
       THEN PageAndStore(
                LoginFinally([l1 EXCEPT !.formError =
                                 LoginErrorText(Prop(result, W("errors")))],
                             "errors"),
                store)
       ELSE IF Truthy(Prop(result, W("data")))
       THEN PageAndStore(
                [l1 EXCEPT !.pc = "fetchApiKey",
                           !.authorization =
                               "Bearer " \o StringOf(Prop(Prop(result, W("data")),
                                                          W("accessToken")))],
                StoreLoginData(store, Prop(result, W("data"))))
       ELSE PageAndStore(
                LoginFinally([l1 EXCEPT !.formError = "Unexpected response from server."],
                             "unexpected"),
                store)

\* client.ts, fetchApiKey, from the response on: what it returns or throws.
fetchApiKeyThen(resp) ==
    IF ~ResponseOk(resp)
    THEN PlainError(JStr(<<"Failed to fetch API key: ">> \o NumText(resp.status)))
    ELSE LET parsed == JSONparse(resp.body) IN
         IF ~parsed.ok THEN SyntaxErrorJSON
         ELSE Returned(OptProp(OptProp(parsed.val, W("data")), W("key")))

\* Mutant: what fetchApiKey throws is not caught where it is awaited and ends
\* in the catch block of the handler.
FetchApiKeyThenRethrows(l, store, o) ==
    LET stored == o.kind = "return" /\ Truthy(o.value)
        l1 == [l EXCEPT !.apiKey = IF stored THEN "stored" ELSE "missing",
                        !.color = "green",
                        !.formError = "Login successful! Redirecting to your dashboard...",
                        !.navbarRefreshed = TRUE,
                        !.redirect = TRUE]
    IN IF o.kind # "return"
       THEN PageAndStore(LoginCatch([l EXCEPT !.apiKey = "failed"], o), store)
       ELSE PageAndStore(LoginFinally(l1, "success"),
                         IF stored THEN setLocalItem(store, "apiKey", StringOf(o.value))
                         ELSE store)

\* LogInPage.ts from the settled fetchApiKey, which ended with o, to the end
\* of the handler.
FetchApiKeyThen(l, store, o) ==
    LET stored == o.kind = "return" /\ Truthy(o.value)
        l1 == [l EXCEPT !.apiKey = IF stored THEN "stored"
                                   ELSE IF o.kind = "return" THEN "missing"
                                   ELSE "failed",
                        !.color = "green",
                        !.formError = "Login successful! Redirecting to your dashboard...",
                        !.navbarRefreshed = TRUE,
                        !.redirect = TRUE]
    IN PageAndStore(LoginFinally(l1, "success"),
                    IF stored THEN setLocalItem(store, "apiKey", StringOf(o.value))
                    ELSE store)

\* What the user may have typed into the form.
EmailValues ==
    { <<>>, <<" ">>, <<"bob">>, <<"bob", "@", "gmail.com">>,
      <<"bob", "@", "stud.noroff.no", ".evil">>,
      <<" ", "bob", "@", "stud.noroff.no", " ">> }
PasswordValues == { <<>>, <<"pass567">>, <<"pass5678">> }

LoginData(name, accessToken) ==
    <<"{">> \o K("name") \o M(name) \o <<",">> \o K("accessToken") \o M(accessToken) \o <<"}">>
DataBody(data) == <<"{">> \o K("data") \o data \o <<",">> \o K("meta") \o <<"{", "}", "}">>
MessageEntry(message) == <<"{">> \o K("message") \o <<Quote>> \o message \o <<Quote, "}">>

\* What the server may answer to the login request.
LoginAnswers ==
    << Response(200, JsonType, DataBody(LoginData("bob", "tokB"))),
       Response(200, JsonType, DataBody(<<"{">> \o K("name") \o M("bob") \o <<"}">>)),
       Response(200, JsonType, DataBody(<<"{">> \o K("accessToken") \o M("tokB") \o <<"}">>)),
       Response(200, JsonType, DataBody(<<"{">> \o K("name") \o <<Quote, Quote, "}">>)),
       Response(200, JsonType,
                <<"{">> \o K("errors") \o <<"[", "]", ",">> \o K("data")
                        \o LoginData("bob", "tokB") \o <<"}">>),
       Response(401, JsonType,
                <<"{">> \o K("errors") \o <<"[">>
                        \o MessageEntry(<<"Invalid", " ", "email", " or ", "password">>)
                        \o <<"]", ",">> \o K("data") \o LoginData("bob", "tokB") \o <<"}">>),
       Response(401, JsonType, ErrorsBody(MessageEntry(<<"Password", " is wrong">>))),
       Response(401, JsonType, ErrorsBody(MessageEntry(<<"User", " does ", "not", " exist">>))),
       Response(400, JsonType, ErrorsBody(MessageEntry(<<"Invalid", " request">>))),
       Response(401, JsonType, ErrorsBody(MessageEntry(<<"Bad ", "credentials">>))),
       Response(429, JsonType, ErrorsBody(MessageEntry(<<"Too many requests">>))),
       Response(400, JsonType, ErrorsBody(<<"{", "}">>)),
       Response(200, JsonType, <<"{", "}">>),
       Response(200, JsonType, W("null")),
       Response(500, HtmlType, W("<html>")) >>

\* What the server may answer to the API key request.
ApiKeyAnswers ==
    << Response(201, JsonType, DataBody(<<"{">> \o K("key") \o M("keyB") \o <<"}">>)),
       Response(200, JsonType, DataBody(<<"{", "}">>)),
       Response(200, JsonType, W("null")),
       Response(401, JsonType, ErrorsBody(MessageEntry(<<"Unauthorized">>))),
       Response(200, HtmlType, W("<html>")) >>

\* The user submits the form; the handler is not running (the browser submits
\* no form whose submit button is disabled).
SubmitLogin ==
    /\ login.pc = "form"
    /\ \E emailValue \in EmailValues, password \in PasswordValues :
           login' = LoginSubmit(login, emailValue, password)
    /\ UNCHANGED <<storage, call, svc, server, feed, ui>>

\* The fetch of loginUser rejects: the network failed.
LoginFetchRejects ==
    /\ login.pc = "loginUser"
    /\ login' = LoginCatch(login, TypeErrorNetwork)
    /\ UNCHANGED <<storage, call, svc, server, feed, ui>>

\* The server answers the login request.
LoginResponds ==
    /\ login.pc = "loginUser"
    /\ \E i \in 1..Len(LoginAnswers) :
           LET then == LoginUserThen(login, storage, LoginAnswers[i]) IN
           /\ login' = then.login
           /\ storage' = then.storage
    /\ UNCHANGED <<call, svc, server, feed, ui>>

\* The fetch of fetchApiKey rejects: the network failed.
ApiKeyFetchRejects ==
    /\ login.pc = "fetchApiKey"
    /\ LET then == FetchApiKeyThen(login, storage, TypeErrorNetwork) IN
       /\ login' = then.login
       /\ storage' = then.storage
    /\ UNCHANGED <<call, svc, server, feed, ui>>

\* The server answers the API key request.
ApiKeyResponds ==
    /\ login.pc = "fetchApiKey"
    /\ \E i \in 1..Len(ApiKeyAnswers) :
           LET then == FetchApiKeyThen(login, storage, fetchApiKeyThen(ApiKeyAnswers[i])) IN
           /\ login' = then.login
           /\ storage' = then.storage
    /\ UNCHANGED <<call, svc, server, feed, ui>>

\* The timer of the redirect fires: the login page is left for the feed.
RedirectToFeed ==
    /\ login.pc = "form"
    /\ login.redirect
    /\ login' = IdleLogin
    /\ UNCHANGED <<storage, call, svc, server, feed, ui>>

\* The user opens the login page.
OpenLoginPage ==
    /\ login.pc = "closed"
    /\ login' = LoginPage
    /\ UNCHANGED <<storage, call, svc, server, feed, ui>>

\* The requests the services make of the API client, one of each helper.
SessionRequests ==
    << getAllPostsRequest(15, 1),
       createCommentRequest("42", JStr(W("hello")), JUndef),
       reactToPostRequest("42", Symbols[1]),
       deleteCommentRequest("42", "7") >>

\* A service calls the API client.
ApiRequest ==
    /\ CallFree
    /\ \E i \in 1..Len(SessionRequests) : call' = Dispatch(SessionRequests[i], storage)
    /\ UNCHANGED <<storage, svc, server, feed, login, ui>>

\* The login page is open, in a browser that is logged out or holds an
\* earlier session.
LoginInit ==
    /\ storage \in { [k \in StorageKeys |-> NULL], SessionStore }
    /\ call = IdleCall
    /\ svc = IdleSvc
    /\ server = ServerAtRest
    /\ feed = IdleFeed
    /\ login = LoginPage
    /\ ui = IdlePage

LoginNext ==
    \/ SubmitLogin
    \/ LoginFetchRejects
    \/ LoginResponds
    \/ ApiKeyFetchRejects
    \/ ApiKeyResponds
    \/ RedirectToFeed
    \/ OpenLoginPage
    \/ ApiRequest
    \/ ServerResponds
    \/ FetchReject
    \/ JsonSettle

LoginSpec == LoginInit /\ [][LoginNext]_vars

-----------------------------------------------------------------------------
(* Two sessions of one user on the same post *)

\* The reactions the server counts for the post of the card.
ServerCount(srv) == Cardinality({ r \in srv.reactions : r[1] = CardPostId })

\* The server with or without the user's reaction on the post of the card.
ServerHolding(held) ==
    [ServerAtRest EXCEPT !.reactions = IF held THEN {<<CardPostId, CardSymbol>>} ELSE {}]

\* What a server that keeps one reaction per user and symbol answers: a
\* second add is refused as a duplicate, a remove of nothing is not found.
ServerAnswerTo(srv, c) ==
    LET held == Reacted(srv, CardPostId, CardSymbol) IN
    IF c.config.method = "PUT"
    THEN IF held THEN ServerAnswers[11] ELSE ServerAnswers[2]
    ELSE IF held THEN ServerAnswers[8] ELSE ServerAnswers[16]

\* The user clicks the like button of the card; the handler runs up to the
\* await of toggleReaction, and toggleReaction up to its await of the add.
LikeClicked ==
    /\ feed.pc = "open"
    /\ feed.inv = <<>>
    /\ SvcFree
    /\ feed.reactionCount < MaxCount
    /\ \E loggedIn \in BOOLEAN :
           /\ feed' = handleToggleReactionStart(feed, loggedIn)
           /\ IF loggedIn
              THEN /\ svc' = Invocation("toggleReaction",
                                        [postId |-> CardPostId, symbol |-> CardSymbol],
                                        "add", 1, Reacted(server, CardPostId, CardSymbol))
                   /\ call' = Dispatch(reactToPostRequest(CardPostId, CardSymbol), storage)
              ELSE UNCHANGED <<svc, call, ui>>
    /\ UNCHANGED <<storage, server, login, ui>>

\* The server takes the request of this session and answers it.
ServerHandles ==
    /\ call.pc = "fetch"
    /\ LET resp == ServerAnswerTo(server, call) IN
       /\ call' = AfterFetch(call, resp)
       /\ server' = ServerAfter(server, svc, call, resp)
    /\ UNCHANGED <<storage, svc, feed, login, ui>>

\* toggleReaction has ended: the handler goes on after its await.
LikeSettles ==
    /\ svc.pc = "done"
    /\ AwaitingAt(1, "handleToggleReaction")
    /\ feed' = handleToggleReactionEnd(feed, 1, svc.outcome)
    /\ svc' = IdleSvc
    /\ UNCHANGED <<storage, call, server, login, ui>>

\* The other session's add reaches the server and is accepted.
OtherSessionAdds ==
    /\ ~Reacted(server, CardPostId, CardSymbol)
    /\ server' = ServerHolding(TRUE)
    /\ UNCHANGED <<storage, call, svc, feed, login, ui>>

\* The other session's remove reaches the server and is accepted.
OtherSessionRemoves ==
    /\ Reacted(server, CardPostId, CardSymbol)
    /\ server' = ServerHolding(FALSE)
    /\ UNCHANGED <<storage, call, svc, feed, login, ui>>

\* The user reloads the page: the card is rendered from the server's post.
ReloadPage ==
    /\ feed.pc = "open"
    /\ feed.inv = <<>>
    /\ feed' = FeedPage(ServerCount(server), 0)
    /\ UNCHANGED <<storage, call, svc, server, login, ui>>

\* The page shows the card as the server holds the post.
RaceInit ==
    /\ storage = SessionStore
    /\ call = IdleCall
    /\ svc = IdleSvc
    /\ \E held \in BOOLEAN :
           /\ server = ServerHolding(held)
           /\ feed = FeedPage(ServerCount(ServerHolding(held)), 0)
    /\ login = IdleLogin
    /\ ui = IdlePage

RaceNext ==
    \/ LikeClicked
    \/ ServerHandles
    \/ FetchReject
    \/ JsonSettle
    \/ ServiceResumes
    \/ LikeSettles
    \/ OtherSessionAdds
    \/ OtherSessionRemoves
    \/ ReloadPage

RaceSpec == RaceInit /\ [][RaceNext]_vars

-----------------------------------------------------------------------------
(* The profile page: the follow button *)

\* The follow button of another user's profile: where initializeFollowButton
\* stands, the profile shown, the disabled property and the class "following"
\* of the button, whether the button still has the two text spans it was
\* rendered with, and whether the click listener is registered.
ProfilePage(username) ==
    [pc |-> "rendered", username |-> username, disabled |-> FALSE, following |-> FALSE,
     texts |-> TRUE, listener |-> FALSE]

\* ProfilePage.ts, updateFollowButton: without the text spans the button's
\* content is written anew; the class follows isFollowing either way.
updateFollowButton(button, isFollowing) == [button EXCEPT !.following = isFollowing]

\* ProfilePage.ts, checkIfFollowing: the request for the user's own profile.
checkIfFollowingRequest(currentUser) ==
    Request("get", "/social/profiles/" \o currentUser \o "?_following=true", JUndef)

\* ProfilePage.ts, checkIfFollowing, from the settled get on: some() stops at
\* the first entry with the name; an entry without properties before it
\* throws, and whatever is thrown ends in false.
checkIfFollowingThen(o, username) ==
    IF o.kind # "return" \/ Nullish(o.value) THEN FALSE
    ELSE LET data == Prop(o.value, W("data")) IN
         IF Nullish(data) THEN FALSE
         ELSE LET following == Prop(data, W("following")) IN
              IF ~Truthy(following) \/ following.t # "arr" THEN FALSE
              ELSE LET entries == following.v
                       Named(i) == /\ ~Nullish(entries[i])
                                   /\ Prop(entries[i], W("name")) = JStr(W(username))
                   IN \E i \in 1..Len(entries) :
                          /\ Named(i)
                          /\ \A j \in 1..(i - 1) : ~Nullish(entries[j])

\* ProfilePage.ts, initializeFollowButton up to await checkIfFollowing: the
\* button is disabled and its content replaced by the spinner.
initializeFollowButtonStart(button) ==
    [button EXCEPT !.pc = "checking", !.disabled = TRUE, !.texts = FALSE]

\* ProfilePage.ts, initializeFollowButton from the settled checkIfFollowing
\* on: the state is shown and the click listener registered. checkIfFollowing
\* never rejects, so the catch block, the one place that enables the button,
\* is not entered. The listener (lines 432-457) runs on a click of the button,
\* and a disabled button takes no click.
initializeFollowButtonThen(button, isFollowing) ==
    [updateFollowButton(button, isFollowing) EXCEPT !.pc = "ready", !.listener = TRUE]

Following(names) ==
    <<"{">> \o K("data") \o <<"{">> \o K("name") \o M("alice") \o <<",">>
            \o K("following") \o <<"[">> \o names \o <<"]", "}", "}">>
NameEntry(name) == <<"{">> \o K("name") \o M(name) \o <<"}">>

\* What the server may answer to the request for the user's own profile.
ProfileAnswers ==
    << Response(200, JsonType, Following(NameEntry("bob"))),
       Response(200, JsonType, Following(NameEntry("carol") \o <<",">> \o NameEntry("bob"))),
       Response(200, JsonType, Following(<<>>)),
       Response(200, JsonType, Following(<<"null", ",">> \o NameEntry("bob"))),
       Response(200, JsonType, <<"{">> \o K("data") \o <<"{", "}", "}">>),
       Response(200, JsonType, <<"{", "}">>),
       Response(200, JsonType, W("null")),
       Response(401, JsonType, MessageBody(W("Unauthorized"))),
       Response(500, HtmlType, W("<html>")) >>

ProfileNames == {"bob", "dave"}

\* The user opens the profile of another user; initializeFollowButton runs up
\* to its await, and checkIfFollowing up to its await of the get, or to its
\* end when no user name is stored.
OpenProfile ==
    /\ ui.pc = "closed"
    /\ CallFree
    /\ \E username \in ProfileNames :
           LET button == initializeFollowButtonStart(ProfilePage(username))
               currentUser == getLocalItem(storage, "user")
           IN IF TruthyStr(currentUser)
              THEN /\ ui' = button
                   /\ call' = Dispatch(checkIfFollowingRequest(currentUser), storage)
              ELSE /\ ui' = [button EXCEPT !.pc = "checked"]
                   /\ call' = IdleCall
    /\ UNCHANGED <<storage, svc, server, feed, login>>

\* The server answers the request of checkIfFollowing.
ProfileResponds ==
    /\ call.pc = "fetch"
    /\ \E i \in 1..Len(ProfileAnswers) : call' = AfterFetch(call, ProfileAnswers[i])
    /\ UNCHANGED <<storage, svc, server, feed, login, ui>>

\* checkIfFollowing has settled: initializeFollowButton goes on to its end.
FollowCheckSettles ==
    /\ \/ ui.pc = "checking" /\ call.pc = "done"
       \/ ui.pc = "checked"
    /\ ui' = initializeFollowButtonThen(
                 ui, ui.pc = "checking" /\ checkIfFollowingThen(call.outcome, ui.username))
    /\ UNCHANGED <<storage, call, svc, server, feed, login>>

\* The user leaves the profile page.
LeaveProfile ==
    /\ ui.pc = "ready"
    /\ ui' = IdlePage
    /\ UNCHANGED <<storage, call, svc, server, feed, login>>

\* The follow button is rendered for a user who is logged in; the user name
\* may or may not have been stored with the token.
ProfileInit ==
    /\ \E user \in {NULL, "alice"}, apiKey \in {NULL, "keyA"} :
           storage = [k \in StorageKeys |->
                        CASE k = "accessToken" -> "tokA" [] k = "apiKey" -> apiKey
                          [] OTHER -> user]
    /\ call = IdleCall
    /\ svc = IdleSvc
    /\ server = ServerAtRest
    /\ feed = IdleFeed
    /\ login = IdleLogin
    /\ ui = IdlePage

ProfileNext ==
    \/ OpenProfile
    \/ ProfileResponds
    \/ FetchReject
    \/ JsonSettle
    \/ FollowCheckSettles
    \/ LeaveProfile

ProfileSpec == ProfileInit /\ [][ProfileNext]_vars

-----------------------------------------------------------------------------
(* The navbar: the search input *)

\* String.prototype.includes with a text of several atoms.
IncludesText(s, q) ==
    \E i \in 1..(Len(s) - Len(q) + 1) : SubSeq(s, i, i + Len(q) - 1) = q

\* field.toLowerCase().includes(query.toLowerCase()) in the filter of
\* enhancedSearch: a field that is not a string throws.
FieldIncludes(field, query) ==
    CASE field.t # "str" -> "throw"
      [] IncludesText(toLowerCase(field.v), toLowerCase(query)) -> "yes"
      [] OTHER -> "no"

\* post.author.name
AuthorName(p) == OptProp(OptProp(p, W("author")), W("name"))

\* The filter callback of enhancedSearch: title || body || author name, each
\* read only when the one before it did not match.
PostMatches(p, query) ==
    LET title == FieldIncludes(OptProp(p, W("title")), query)
        body == FieldIncludes(OptProp(p, W("body")), query)
    IN CASE title # "no" -> title
         [] body # "no" -> body
         [] OTHER -> FieldIncludes(AuthorName(p), query)

\* The navbar's enhancedSearch from the settled getAllPosts(50, 1) on: the
\* posts that match, which handleSearchInput stores; whatever is thrown, by
\* getAllPosts, by the filter or by the collection of the authors of the
\* matching posts, is caught before any result is pushed.
enhancedSearchThen(o, query) ==
    IF o.kind # "return" \/ Nullish(o.value) THEN <<>>
    ELSE LET data == Prop(o.value, W("data")) IN
         IF data.t # "arr" THEN <<>>
         ELSE LET posts == data.v
                  Throws(i) ==
                      \/ PostMatches(posts[i], query) = "throw"
                      \/ /\ PostMatches(posts[i], query) = "yes"
                         /\ FieldIncludes(AuthorName(posts[i]), query) = "throw"
              IN IF \E i \in 1..Len(posts) : Throws(i) THEN <<>>
                 ELSE SelectSeq(posts, LAMBDA p : PostMatches(p, query) = "yes")

\* The navbar with its search input: the input's value, window.searchQuery,
\* window.searchResults, the terms of the searches still awaited, the path
\* of the location, and whether the feed page shown was rendered in search
\* mode.
NavbarPage ==
    [pc |-> "navbar", value |-> <<>>, searchQuery |-> JUndef, searchResults |-> JUndef,
     pending |-> <<>>, path |-> "/feed", searchMode |-> FALSE]

\* FeedPage.ts, FeedPage: isSearchMode = Boolean(searchQuery && searchResults),
\* read when renderRoute('/feed') renders the page.
renderFeed(nav) ==
    [nav EXCEPT !.path = "/feed",
                !.searchMode = Truthy(nav.searchQuery) /\ Truthy(nav.searchResults)]

\* handleSearchInput up to its return for an empty term, or to its await of
\* enhancedSearch.
handleSearchInputStart(nav, value) ==
    LET searchTerm == trim(toLowerCase(value)) IN
    IF searchTerm = <<>>
    THEN LET cleared == [nav EXCEPT !.searchQuery = JNull]
         IN IF nav.path = "/feed" THEN renderFeed(cleared) ELSE cleared
    ELSE [nav EXCEPT !.pending = Append(nav.pending, searchTerm)]

\* handleSearchInput from the settled enhancedSearch on: the term this call
\* read from the input and its results are stored, and the feed is rendered.
handleSearchInputThen(nav, i, results) ==
    renderFeed([nav EXCEPT !.pending = Without(nav.pending, i),
                           !.searchQuery = JStr(nav.pending[i]),
                           !.searchResults = JArr(results)])

PostEntry(title, body, author) ==
    <<"{">> \o K("title") \o M(title) \o <<",">> \o K("body") \o M(body) \o <<",">>
            \o K("author") \o author \o <<"}">>

\* What the server may answer to the request of getAllPosts(50, 1).
SearchAnswers ==
    << Response(200, JsonType,
                DataBody(<<"[">> \o PostEntry("Cat", "purrs", NameEntry("alice")) \o <<",">>
                                 \o PostEntry("walk", "dog", NameEntry("bob")) \o <<"]">>)),
       Response(200, JsonType,
                DataBody(<<"[">> \o PostEntry("dog", "barks", NameEntry("cat")) \o <<"]">>)),
       Response(200, JsonType,
                DataBody(<<"[">> \o PostEntry("dog", "barks", W("null")) \o <<"]">>)),
       Response(200, JsonType, DataBody(<<"[", "]">>)),
       Response(200, JsonType, <<"{", "}">>),
       Response(500, HtmlType, W("<html>")) >>

\* The values of the search input, and the terms handleSearchInput searches.
SearchValues == {<<>>, <<" ">>, <<"Cat">>, <<"dog", " ">>}
SearchTerms == { trim(toLowerCase(value)) : value \in SearchValues } \ { <<>> }

\* await enhancedSearch(searchTerm), by the answer of the server (0: the
\* network fails).
enhancedSearchOutcome(query, store, answer) ==
    LET c0 == Dispatch(getAllPostsRequest(50, 1), store)
        c1 == AfterFetch(c0, SearchAnswers[answer])
        o == CASE answer = 0 -> Thrown(c0, TypeErrorNetwork).outcome
               [] c1.pc = "json" -> AfterJson(c1, JSONparse(c1.response.body)).outcome
               [] OTHER -> c1.outcome
    IN enhancedSearchThen(getAllPostsThen(o).outcome, query)

SearchResults ==
    [term \in SearchTerms |-> [answer \in 0..Len(SearchAnswers) |->
        enhancedSearchOutcome(term, SessionStore, answer)]]

\* An input event: the user changes the value of the search input.
SearchInput ==
    /\ ui.pc = "navbar"
    /\ Len(ui.pending) < MaxInFlight
    /\ \E value \in SearchValues \ {ui.value} :
           ui' = handleSearchInputStart([ui EXCEPT !.value = value], value)
    /\ UNCHANGED <<storage, call, svc, server, feed, login>>

\* handleSearchClick, by a click of the search button or by Enter: a value
\* that is not blank is searched as an input event would.
SearchClick ==
    /\ ui.pc = "navbar"
    /\ Len(ui.pending) < MaxInFlight
    /\ trim(ui.value) # <<>>
    /\ ui' = handleSearchInputStart(ui, ui.value)
    /\ UNCHANGED <<storage, call, svc, server, feed, login>>

\* One of the awaited searches settles, in any order.
SearchSettles ==
    /\ ui.pc = "navbar"
    /\ \E i \in 1..Len(ui.pending), answer \in 0..Len(SearchAnswers) :
           ui' = handleSearchInputThen(ui, i, SearchResults[ui.pending[i]][answer])
    /\ UNCHANGED <<storage, call, svc, server, feed, login>>

\* The feed button of the navbar: pushState and renderRoute('/feed').
FeedClicked ==
    /\ ui.pc = "navbar"
    /\ ui' = renderFeed(ui)
    /\ UNCHANGED <<storage, call, svc, server, feed, login>>

\* The profile button of the navbar: the feed page is no longer shown.
ProfileClicked ==
    /\ ui.pc = "navbar"
    /\ ui.path = "/feed"
    /\ ui' = [ui EXCEPT !.path = "/profile", !.searchMode = FALSE]
    /\ UNCHANGED <<storage, call, svc, server, feed, login>>

SearchInit ==
    /\ storage = SessionStore
    /\ call = IdleCall
    /\ svc = IdleSvc
    /\ server = ServerAtRest
    /\ feed = IdleFeed
    /\ login = IdleLogin
    /\ ui = NavbarPage

SearchNext ==
    \/ SearchInput
    \/ SearchClick
    \/ SearchSettles
    \/ FeedClicked
    \/ ProfileClicked

SearchSpec == SearchInit /\ [][SearchNext]_vars
-----------------------------------------------------------------------------
(* The feed page: the edit form of a post *)

\* The texts of this section are sequences of one-character atoms.
Chars(n, c) == [i \in 1..n |-> c]

TitleLimit == 50
BodyLimit == 120
ShownTags == 2

\* text.length > limit ? text.substring(0, limit) + "..." : text
Truncated(text, limit) ==
    IF Len(text) > limit THEN SubSeq(text, 1, limit) \o <<".", ".", ".">> ELSE text

\* The post card as editPostFunction reads it: the textContent of the title
\* element (none for an empty title), that of the .post-body element, which
\* holds the paragraph of the body between the white space of the markup, and
\* those of the .tag-compact elements, one for each of the first tags.
postCard(p) ==
    [title |-> Truncated(p.title, TitleLimit),
     body |-> <<" ">> \o Truncated(p.body, BodyLimit) \o <<" ">>,
     tags |-> [i \in 1..(IF Len(p.tags) > ShownTags THEN ShownTags ELSE Len(p.tags)) |->
                  <<"#">> \o p.tags[i]]]

\* String.prototype.replace(a, ''): the first occurrence goes.
ReplaceFirst(s, a) ==
    IF \E i \in 1..Len(s) : s[i] = a
    THEN Without(s, CHOOSE i \in 1..Len(s) : s[i] = a /\ \A j \in 1..(i - 1) : s[j] # a)
    ELSE s

\* Array.prototype.join
RECURSIVE JoinWith(_, _)
JoinWith(texts, sep) ==
    CASE texts = <<>> -> <<>>
      [] Len(texts) = 1 -> texts[1]
      [] OTHER -> texts[1] \o sep \o JoinWith(Tail(texts), sep)

\* String.prototype.split(a)
RECURSIVE Split(_, _)
Split(s, a) ==
    IF \E i \in 1..Len(s) : s[i] = a
    THEN LET i == CHOOSE i \in 1..Len(s) : s[i] = a /\ \A j \in 1..(i - 1) : s[j] # a
         IN <<SubSeq(s, 1, i - 1)>> \o Split(SubSeq(s, i + 1, Len(s)), a)
    ELSE <<s>>

NonEmpty(text) == text # <<>>

\* editPostFunction: the fields of the edit form, filled from the card.
editPostFunction(card) ==
    [title |-> card.title,
     body |-> card.body,
     tags |-> JoinWith(SelectSeq([i \in 1..Len(card.tags) |-> ReplaceFirst(card.tags[i], "#")],
                                 NonEmpty),
                       <<",", " ">>)]

\* handleEditPost up to its await of updatePost: the payload built from the
\* fields of the form, or none when the title or the body is empty.
handleEditPost(form) ==
    LET title == trim(form.title)
        body == trim(form.body)
        rawTags == trim(form.tags)
        parts == Split(rawTags, ",")
        tags == IF rawTags = <<>> THEN <<>>
                ELSE SelectSeq([i \in 1..Len(parts) |-> trim(parts[i])], NonEmpty)
    IN IF title = <<>> \/ body = <<>> THEN [sent |-> FALSE]
       ELSE [sent |-> TRUE, title |-> title, body |-> body, tags |-> tags]

\* handleEditPost from the settled updatePost on: the card shows the title
\* and the body of the updated post in full and the first of its tags.
handleEditPostThen(updated) ==
    [postCard(updated) EXCEPT !.title = updated.title, !.body = updated.body]

EditTitles == {<<"a">>, Chars(TitleLimit, "a"), Chars(TitleLimit + 1, "a")}
EditBodies == {<<>>, <<"b">>, Chars(BodyLimit, "b"), Chars(BodyLimit + 1, "b")}
EditTags == {<<>>, <<W("x")>>, <<W("x"), W("y")>>, <<W("x"), W("y"), W("z")>>}

\* The card of a post of the user, with the edit form closed.
EditPage(p) ==
    [pc |-> "card", post |-> p, card |-> postCard(p),
     form |-> [title |-> <<>>, body |-> <<>>, tags |-> <<>>],
     payload |-> [sent |-> FALSE]]

\* The user picks "Edit Post" in the menu of the card.
EditPostClicked ==
    /\ ui.pc = "card"
    /\ ui' = [ui EXCEPT !.pc = "editing", !.form = editPostFunction(ui.card)]
    /\ UNCHANGED <<storage, call, svc, server, feed, login>>

\* The user submits the edit form as it was filled.
EditSubmitted ==
    /\ ui.pc = "editing"
    /\ LET payload == handleEditPost(ui.form)
       IN ui' = [ui EXCEPT !.pc = IF payload.sent THEN "updating" ELSE "editing",
                           !.payload = payload]
    /\ UNCHANGED <<storage, call, svc, server, feed, login>>

\* updatePost resolves with the post as the server now holds it: the card is
\* updated and the form closed.
EditUpdated ==
    /\ ui.pc = "updating"
    /\ LET updated == [title |-> ui.payload.title, body |-> ui.payload.body,
                       tags |-> ui.payload.tags]
       IN ui' = [ui EXCEPT !.pc = "card", !.post = updated,
                           !.card = handleEditPostThen(updated),
                           !.payload = [sent |-> FALSE]]
    /\ UNCHANGED <<storage, call, svc, server, feed, login>>

\* updatePost rejects: the form stays open.
EditFailed ==
    /\ ui.pc = "updating"
    /\ ui' = [ui EXCEPT !.pc = "editing", !.payload = [sent |-> FALSE]]
    /\ UNCHANGED <<storage, call, svc, server, feed, login>>

\* The user closes the edit form.
EditClosed ==
    /\ ui.pc = "editing"
    /\ ui' = [ui EXCEPT !.pc = "card"]
    /\ UNCHANGED <<storage, call, svc, server, feed, login>>

EditInit ==
    /\ storage = SessionStore
    /\ call = IdleCall
    /\ svc = IdleSvc
    /\ server = ServerAtRest
    /\ feed = IdleFeed
    /\ login = IdleLogin
    /\ \E title \in EditTitles, body \in EditBodies, tags \in EditTags :
           ui = EditPage([title |-> title, body |-> body, tags |-> tags])

EditNext ==
    \/ EditPostClicked
    \/ EditSubmitted
    \/ EditUpdated
    \/ EditFailed
    \/ EditClosed

EditSpec == EditInit /\ [][EditNext]_vars
-----------------------------------------------------------------------------
(* The throttle utility *)

MaxTime == 6

\* throttle(func, limit): the closure of the returned function, with the time
\* in milliseconds, the timers set and not yet expired by the time each is
\* due, the invocations of func: how many, the times of the last two and the
\* arguments of the last, and what happened last: a call with its arguments
\* or the expiry of a timer.
throttle(limit) ==
    [pc |-> "throttle", limit |-> limit, shouldWait |-> FALSE, waitingArgs |-> NULL,
     now |-> 0, timers |-> <<>>, invoked |-> 0, prevAt |-> -1, lastAt |-> -1,
     lastArgs |-> NULL, event |-> <<"none", NULL>>]

\* func.apply(this, args)
funcApply(t, args) ==
    [t EXCEPT !.invoked = t.invoked + 1, !.prevAt = t.lastAt, !.lastAt = t.now,
              !.lastArgs = args]

\* setTimeout(timeoutFunc.bind(this), limit)
setTimeout(t) == [t EXCEPT !.timers = Append(t.timers, t.now + t.limit)]

\* Mutant: after the delivery of the waiting arguments no timer is set and
\* the next call is let through.
timeoutFuncOpensNoWindow(t) ==
    IF t.waitingArgs = NULL THEN [t EXCEPT !.shouldWait = FALSE]
    ELSE [funcApply(t, t.waitingArgs) EXCEPT !.waitingArgs = NULL, !.shouldWait = FALSE]

\* timeoutFunc
timeoutFunc(t) ==
    IF t.waitingArgs = NULL THEN [t EXCEPT !.shouldWait = FALSE]
    ELSE setTimeout([funcApply(t, t.waitingArgs) EXCEPT !.waitingArgs = NULL])

\* The function throttle returns, called with args.
throttled(t, args) ==
    IF t.shouldWait THEN [t EXCEPT !.waitingArgs = args]
    ELSE setTimeout([funcApply(t, args) EXCEPT !.shouldWait = TRUE])

ThrottleLimits == {1, 2, 3}
ThrottleArgs == {"first", "second"}

\* The throttled function is called.
ThrottledCall ==
    /\ ui.pc = "throttle"
    /\ \E args \in ThrottleArgs :
           ui' = [throttled(ui, args) EXCEPT !.event = <<"call", args>>]
    /\ UNCHANGED <<storage, call, svc, server, feed, login>>

\* A timer that is due expires, at its time or later: timeoutFunc runs.
TimerExpires ==
    /\ ui.pc = "throttle"
    /\ \E i \in 1..Len(ui.timers) :
           /\ ui.timers[i] <= ui.now
           /\ ui' = [timeoutFunc([ui EXCEPT !.timers = Without(ui.timers, i)])
                       EXCEPT !.event = <<"timeout", NULL>>]
    /\ UNCHANGED <<storage, call, svc, server, feed, login>>

\* A millisecond passes.
TimePasses ==
    /\ ui.pc = "throttle"
    /\ ui.now < MaxTime
    /\ ui' = [ui EXCEPT !.now = ui.now + 1]
    /\ UNCHANGED <<storage, call, svc, server, feed, login>>

ThrottleInit ==
    /\ storage = SessionStore
    /\ call = IdleCall
    /\ svc = IdleSvc
    /\ server = ServerAtRest
    /\ feed = IdleFeed
    /\ login = IdleLogin
    /\ \E limit \in ThrottleLimits : ui = throttle(limit)

ThrottleNext ==
    \/ ThrottledCall
    \/ TimerExpires
    \/ TimePasses

ThrottleSpec == ThrottleInit /\ [][ThrottleNext]_vars
-----------------------------------------------------------------------------
(* The time-ago text of a card *)

\* `${number}${unit}`, and "now" with no number.
TimeText(number, unit) == [number |-> number, unit |-> unit]

\* interactions.ts, getTimeAgo, from diffInMs = seconds * 1000 + millis on,
\* with 0 <= millis < 1000, so that Math.floor(diffInMs / 1000) is seconds.
getTimeAgo(seconds, millis) ==
    LET diffInSeconds == seconds
        diffInMinutes == diffInSeconds \div 60
        diffInHours == diffInMinutes \div 60
        diffInDays == diffInHours \div 24
        diffInWeeks == diffInDays \div 7
        diffInMonths == diffInDays \div 30
        diffInYears == diffInDays \div 365
    IN CASE diffInSeconds < 60 -> TimeText(0, "now")
         [] diffInMinutes < 60 -> TimeText(diffInMinutes, "m")
         [] diffInHours < 24 -> TimeText(diffInHours, "h")
         [] diffInDays < 7 -> TimeText(diffInDays, "d")
         [] diffInWeeks < 4 -> TimeText(diffInWeeks, "w")
         [] diffInMonths < 12 -> TimeText(diffInMonths, "mo")
         [] OTHER -> TimeText(diffInYears, "y")

\* The ages of the dates shown, in seconds: around every threshold of
\* getTimeAgo, and a date one second ahead of the clock.
AgeDays == {0, 1, 6, 7, 27, 28, 29, 30, 59, 60, 359, 360, 364, 365, 729, 730}
AgeSeconds ==
    {-1, 59, 60, 61}
        \cup { d * 86400 + h * 3600 + s : d \in AgeDays, h \in {0, 23}, s \in {0, 3599} }
AgeMillis == {0, 999}

\* A card is rendered with the date of its post.
TimeAgoShown ==
    /\ ui.pc \in {"clock", "time"}
    /\ \E seconds \in AgeSeconds, millis \in AgeMillis :
           ui' = [pc |-> "time", seconds |-> seconds, millis |-> millis,
                  text |-> getTimeAgo(seconds, millis)]
    /\ UNCHANGED <<storage, call, svc, server, feed, login>>

TimeInit ==
    /\ storage = SessionStore
    /\ call = IdleCall
    /\ svc = IdleSvc
    /\ server = ServerAtRest
    /\ feed = IdleFeed
    /\ login = IdleLogin
    /\ ui = [pc |-> "clock"]

TimeNext == TimeAgoShown

TimeSpec == TimeInit /\ [][TimeNext]_vars
-----------------------------------------------------------------------------
(* Properties of the API client *)

\* A step that invokes apiClient: the call slot is free and is taken.
InvocationStep == CallFree /\ call' # call

\* A request has been handed to fetch.
Dispatched == call.pc # "idle"

\* A response has been received for the current call.
Received == Dispatched /\ call.response.status # 0

HasHeader(h, n) == n \in DOMAIN h

JsonContentType(resp) ==
    Truthy(resp.contentType) /\ Includes(resp.contentType.v, "application/json")

\* Equality of two JavaScript values of this model, tag first.
SameValue(a, b) == a.t = b.t /\ (a.t \in {"undef", "null", "form"} \/ a.v = b.v)

\* C1: every request that get, post, put, del (or apiClient itself) dispatches
\* while localStorage holds a non-empty accessToken carries the header
\* Authorization with the value "Bearer " followed by exactly the token that is
\* in storage at the moment of the dispatch.
C1_BearerTokenAttached ==
    [][InvocationStep /\ TruthyStr(storage["accessToken"])
         => /\ call'.pc = "fetch"
            /\ HasHeader(call'.config.headers, "Authorization")
            /\ call'.config.headers["Authorization"] = "Bearer " \o storage["accessToken"]
            /\ call'.accessToken = storage["accessToken"]]_vars

\* C1 witness: a post in flight that carries the stored token.
C1_Witness ==
    /\ call.pc = "fetch"
    /\ call.helper = "post"
    /\ storage["accessToken"] = "tokA"
    /\ HasHeader(call.config.headers, "Authorization")
    /\ call.config.headers["Authorization"] = "Bearer tokA"

\* C2: the auth headers of a dispatched request are exactly those of the stored
\* credentials: X-Noroff-API-Key iff a non-empty apiKey is stored (with its
\* value), Authorization iff a non-empty accessToken is stored, both when both
\* are stored; and with neither stored the request is dispatched all the same.
C2_AuthHeadersFollowStorage ==
    [][InvocationStep
         => LET h == call'.config.headers IN
            /\ HasHeader(h, API_KEY_HEADER) <=> TruthyStr(storage["apiKey"])
            /\ HasHeader(h, "Authorization") <=> TruthyStr(storage["accessToken"])
            /\ HasHeader(h, API_KEY_HEADER) => h[API_KEY_HEADER] = storage["apiKey"]
            /\ call'.pc = "fetch"
            /\ call'.fetches = 1
            /\ call'.outcome = Pending]_vars

\* C2 witness: a request in flight with both headers, both credentials stored.
C2_Witness ==
    /\ call.pc = "fetch"
    /\ TruthyStr(call.apiKey)
    /\ TruthyStr(call.accessToken)
    /\ HasHeader(call.config.headers, API_KEY_HEADER)
    /\ HasHeader(call.config.headers, "Authorization")

\* C3: a response with status 204 makes the call return null, whatever its
\* content-type and body: the body is never read and nothing is thrown.
C3_NoContentYieldsNull ==
    Received /\ call.response.status = 204
        => /\ call.pc = "done"
           /\ call.outcome = Returned(JNull)
           /\ ~call.bodyUsed
           /\ call.thrown = NothingThrown

\* C3 witness: a 204 that announces JSON and carries a body that is no JSON.
C3_Witness ==
    /\ call.pc = "done"
    /\ call.response.status = 204
    /\ JsonContentType(call.response)
    /\ call.response.body = W("<html>")
    /\ call.outcome = Returned(JNull)


\* The parsed body of the received response (response.json()'s result).
ParsedBody == JSONparse(call.response.body)

\* The call settled on a response that is not 2xx, announces JSON and parses.
FailedWithJson ==
    /\ call.pc = "done"
    /\ Received
    /\ ~ResponseOk(call.response)
    /\ JsonContentType(call.response)
    /\ ParsedBody.ok

\* The parsed body has an errors array.
HasErrorsArray(v) == v.t = "obj" /\ Prop(v, <<"errors">>).t = "arr"

\* The parsed body has an errors array whose first entry has a message field.
HasFirstErrorMessage(v) ==
    /\ HasErrorsArray(v)
    /\ Prop(v, <<"errors">>).v # <<>>
    /\ Prop(v, <<"errors">>).v[1].t = "obj"
    /\ \E i \in 1..Len(Prop(v, <<"errors">>).v[1].v) :
           Prop(v, <<"errors">>).v[1].v[i][1] = <<"message">>

FirstErrorMessage(v) == Prop(Prop(v, <<"errors">>).v[1], <<"message">>)

\* C4 as stated: a non-2xx JSON response whose errors[0] has a message field
\* raises an ApiError with that message, for every value of the field, and
\* with the HTTP status.
C4_MessageIsFirstError ==
    FailedWithJson /\ HasFirstErrorMessage(ParsedBody.val)
        => /\ call.outcome.kind = "ApiError"
           /\ SameValue(call.outcome.message, FirstErrorMessage(ParsedBody.val))
           /\ call.outcome.status = call.response.status

\* C4 amended: the ApiError carries errors[0].message when that value is
\* non-empty (truthy), and "HTTP Error: <status>" when it is empty; the status
\* is the HTTP status in both cases.
C4_MessageIsFirstErrorOrFallback ==
    FailedWithJson /\ HasFirstErrorMessage(ParsedBody.val)
        => /\ call.outcome.kind = "ApiError"
           /\ call.outcome.status = call.response.status
           /\ IF Truthy(FirstErrorMessage(ParsedBody.val))
              THEN SameValue(call.outcome.message, FirstErrorMessage(ParsedBody.val))
              ELSE call.outcome.message = HttpErrorMessage(call.response.status)

\* C4 witness: a 404 with errors[0].message = "Post not found" has raised an
\* ApiError with that message.
C4_Witness ==
    /\ FailedWithJson
    /\ HasFirstErrorMessage(ParsedBody.val)
    /\ call.response.status = 404
    /\ call.outcome = ApiError(JStr(W("Post not found")), 404)

\* C5: a non-2xx JSON response whose parsed body has no errors array raises an
\* ApiError with the message "HTTP Error: <status>" and that status.
C5_HttpErrorWithoutErrors ==
    FailedWithJson /\ ~HasErrorsArray(ParsedBody.val)
        => call.outcome = ApiError(HttpErrorMessage(call.response.status),
                                   call.response.status)

\* C6: a response whose content-type is missing or does not contain
\* "application/json" is settled without reading the body: null when the
\* status is 2xx, an ApiError "HTTP Error: <status>" with the status otherwise.
C6_NonJsonNeverRead ==
    Received /\ ~JsonContentType(call.response)
        => /\ call.pc = "done"
           /\ ~call.bodyUsed
           /\ ResponseOk(call.response) => call.outcome = Returned(JNull)
           /\ ~ResponseOk(call.response)
                => call.outcome = ApiError(HttpErrorMessage(call.response.status),
                                           call.response.status)

\* C6 witness: a 404 text/html response whose body would name an error has
\* raised "HTTP Error: 404".
C6_Witness ==
    /\ call.pc = "done"
    /\ call.response.status = 404
    /\ call.response.contentType = JStr(W("text/html"))
    /\ HasFirstErrorMessage(ParsedBody.val)
    /\ call.outcome = ApiError(JStr(<<"HTTP Error: ", "404">>), 404)

\* C7: a settled call has exactly one of three outcomes: a returned value (the
\* parsed body or null), an ApiError with the HTTP status, or the generic Error
\* with the fixed message and no status. A network failure and a parse failure
\* give the same generic error; an ApiError is never replaced by it. Until the
\* call settles it has no outcome.
C7_ThreeOutcomes ==
    /\ call.pc # "done" => call.outcome = Pending
    /\ call.pc = "done" =>
        \/ /\ call.outcome.kind = "return"
           /\ call.thrown = NothingThrown
           /\ \/ call.outcome.value = JNull /\ ~call.bodyUsed
              \/ /\ call.bodyUsed
                 /\ ParsedBody.ok
                 /\ SameValue(call.outcome.value, ParsedBody.val)
        \/ /\ call.outcome.kind = "ApiError"
           /\ call.thrown = call.outcome
           /\ call.outcome.status = call.response.status
        \/ /\ call.outcome = [kind |-> "Error", message |-> GenericMessage]
           /\ call.thrown.kind \in {"TypeError", "SyntaxError"}

\* C7 witness: a parse failure has ended in the generic error.
C7_Witness ==
    /\ call.pc = "done"
    /\ call.thrown = SyntaxErrorJSON
    /\ call.outcome = PlainError(GenericMessage)


\* C8: the method of a dispatched request is the configured method when one is
\* given, otherwise POST with a body and GET without: get sends GET without a
\* body, post sends POST, put sends PUT and its body, del sends DELETE without
\* a body.
C8_MethodSelection ==
    Dispatched =>
        /\ call.options.method # NULL => call.config.method = call.options.method
        /\ call.options.method = NULL /\ Truthy(call.options.body)
             => call.config.method = "POST" /\ call.config.body # NoBody
        /\ call.options.method = NULL /\ ~Truthy(call.options.body)
             => call.config.method = "GET" /\ call.config.body = NoBody
        /\ call.helper = "get" => call.config.method = "GET" /\ call.config.body = NoBody
        /\ call.helper = "post" => call.config.method = "POST"
        /\ call.helper = "put" => call.config.method = "PUT" /\ call.config.body # NoBody
        /\ call.helper = "del" => call.config.method = "DELETE" /\ call.config.body = NoBody

\* C8 witness: a put in flight with method PUT and a serialized body.
C8_Witness ==
    /\ call.pc = "fetch"
    /\ call.helper = "put"
    /\ call.config.method = "PUT"
    /\ call.config.body.t = "text"

\* C9: post and put send a structured object as its JSON text, encoded once
\* (parsing the wire text once gives the object back) with Content-Type:
\* application/json; a FormData goes out as it is and the client sets no
\* Content-Type for it.
C9_BodyEncodedOnce ==
    Dispatched /\ call.helper \in {"post", "put"} =>
        /\ call.arg.t = "obj" =>
             /\ call.config.body.t = "text"
             /\ JSONparse(call.config.body.s).ok
             /\ SameValue(JSONparse(call.config.body.s).val, call.arg)
             /\ HasHeader(call.config.headers, "Content-Type")
             /\ call.config.headers["Content-Type"] = "application/json"
        /\ call.arg.t = "form" =>
             /\ call.config.body = FormBody
             /\ ~HasHeader(call.config.headers, "Content-Type")

\* C9 witness: the comment object, whose text holds quotes, is on the wire of
\* a post as JSON text.
C9_Witness ==
    /\ call.pc = "fetch"
    /\ call.helper = "post"
    /\ call.arg = RequestBodies[2]
    /\ call.config.body.t = "text"
    /\ Len(call.config.body.s) > 2

\* C10: an invocation calls fetch once. No step of a call in progress sends a
\* second request, whatever failed; the call settles when the fetch rejects or
\* resolves with an empty response, and otherwise when the body read settles.
C10_SingleAttempt ==
    [][/\ call'.pc # "idle" => call'.fetches = 1
       /\ call.pc \in {"fetch", "json"} /\ call' # call
            => /\ call'.pc \in {"json", "done"}
               /\ call'.config = call.config
               /\ call.pc = "json" => call'.pc = "done"
               /\ call'.pc = "json" => ~IsEmptyResponse(call'.response)
               /\ call'.pc = "done" => call'.outcome # Pending]_vars

\* C10 witness: a call that failed with an ApiError has sent one request.
C10_Witness ==
    /\ call.pc = "done"
    /\ call.outcome.kind = "ApiError"
    /\ call.fetches = 1


-----------------------------------------------------------------------------
(* Properties of the services *)

\* A toggleReaction invocation, at any step / at its end.
Toggling == svc.pc # "idle" /\ svc.fn = "toggleReaction"
Toggled == Toggling /\ svc.pc = "done"

\* The server accepted the request: a 2xx answer the client can read.
Accepted(resp) ==
    /\ ResponseOk(resp)
    /\ IsEmptyResponse(resp) \/ JSONparse(resp.body).ok

\* The server refused the add as a duplicate: 400 or 409, readable.
RefusedAsDuplicate(resp) ==
    /\ resp.status \in {400, 409}
    /\ IsEmptyResponse(resp) \/ JSONparse(resp.body).ok

\* The server of the toggle behaved as assumed: it accepted the add when it
\* did not hold the reaction and refused it with 400 or 409 when it did, and
\* it accepted the remove.
ServerAsAssumed ==
    /\ Len(svc.answers) >= 1
    /\ IF svc.before THEN RefusedAsDuplicate(svc.answers[1]) ELSE Accepted(svc.answers[1])
    /\ Len(svc.answers) >= 2 => Accepted(svc.answers[2])

\* C11: with a server that accepts the first add of a reaction and answers a
\* duplicate add with 400 or 409, a toggle returns true and leaves the
\* reaction on the server when the server did not hold it, and returns false
\* and leaves it removed when the server held it; so sequential toggles
\* alternate true, false, true, ...
C11_TogglesAlternate ==
    Toggled /\ ServerAsAssumed
        => /\ svc.outcome = Returned(JBool(~svc.before))
           /\ Reacted(server, svc.args.postId, svc.args.symbol) = ~svc.before

\* The add of the toggle failed: reactToPost threw.
AddFailed == Toggling /\ svc.caught # NothingThrown
RemoveSent == Toggling /\ svc.calls = 2

\* C12: toggleReaction sends the remove exactly when the add failed with HTTP
\* status 400 or 409 or with a message containing "already" or "exist"; after
\* any other failure of the add it sends no remove and throws the add's error;
\* and when the remove fails it throws the remove's error.
C12_RemoveExactlyOnDuplicate ==
    /\ Toggling /\ Len(svc.answers) >= 1 =>
         (RemoveSent <=>
            /\ AddFailed
            /\ \/ svc.answers[1].status \in {400, 409}
               \/ MessageIncludes(svc.caught, "already")
               \/ MessageIncludes(svc.caught, "exist"))
    /\ Toggled /\ AddFailed /\ ~RemoveSent => svc.outcome = svc.caught
    /\ Toggled /\ RemoveSent =>
         \/ svc.outcome = Returned(JBool(FALSE))
         \/ svc.outcome = removeReactionThen(call.outcome).outcome

\* C13: getAllPosts(limit, page) sends one GET to
\* /social/posts?limit=<limit>&page=<page>&_author=true&_reactions=true&_comments=true
\* and ends as that call ends: it returns the response as it is, data and meta,
\* and when the call fails it throws the call's error, no default value.
C13_GetAllPosts ==
    svc.pc # "idle" /\ svc.fn = "getAllPosts" =>
        /\ svc.calls = 1
        /\ call.helper = "get"
        /\ call.config.method = "GET"
        /\ call.config.body = NoBody
        /\ call.url = API_URL \o "/social/posts?limit=" \o ToString(svc.args.limit)
                        \o "&page=" \o ToString(svc.args.page)
                        \o "&_author=true&_reactions=true&_comments=true"
        /\ svc.pc = "done" => /\ call.pc = "done"
                              /\ svc.outcome = call.outcome

\* C13 witness: getAllPosts(15, 2) has returned a response with data and meta.
C13_Witness ==
    /\ svc.pc = "done"
    /\ svc.fn = "getAllPosts"
    /\ svc.args = [limit |-> 15, page |-> 2]
    /\ call.url = "https://v2.api.noroff.dev/social/posts?limit=15&page=2&_author=true&_reactions=true&_comments=true"
    /\ svc.outcome.kind = "return"
    /\ svc.outcome.value.t = "obj"
    /\ Prop(svc.outcome.value, W("meta")).t = "obj"
    /\ Prop(svc.outcome.value, W("data")).t = "arr"

HasProp(v, key) == v.t = "obj" /\ \E i \in 1..Len(v.v) : v.v[i][1] = key

\* C14: createComment posts to /social/posts/<postId>/comment a payload that
\* has the field body, and the field replyToId iff a non-empty replyToId was
\* given, then with that value; without replyToId the payload is exactly
\* { body }. replyToComment sends the same with replyToId = the parent's id.
\* The payload is what goes out on the wire.
C14_CommentPayload ==
    svc.pc # "idle" /\ svc.fn \in {"createComment", "replyToComment"} =>
        /\ call.helper = "post"
        /\ call.config.method = "POST"
        /\ call.url = API_URL \o "/social/posts/" \o svc.args.postId \o "/comment"
        /\ HasProp(call.arg, W("body"))
        /\ SameValue(Prop(call.arg, W("body")), svc.args.body)
        /\ HasProp(call.arg, W("replyToId")) <=> Truthy(svc.args.replyToId)
        /\ HasProp(call.arg, W("replyToId"))
             => SameValue(Prop(call.arg, W("replyToId")), svc.args.replyToId)
        /\ ~Truthy(svc.args.replyToId) => Len(call.arg.v) = 1
        /\ call.config.body.t = "text"
        /\ SameValue(JSONparse(call.config.body.s).val, call.arg)
        /\ svc.fn = "replyToComment" => HasProp(call.arg, W("replyToId"))

\* C14 witness: createComment("42", "hello", undefined) has posted
\* {"body":"hello"}.
C14_Witness ==
    /\ svc.pc = "await"
    /\ svc.fn = "createComment"
    /\ svc.args.replyToId = JUndef
    /\ call.url = "https://v2.api.noroff.dev/social/posts/42/comment"
    /\ call.config.body = TextBody(<<"{", Quote, "body", Quote, ":", Quote, "hello", Quote, "}">>)

GotData ==
    /\ call.outcome.kind = "return"
    /\ call.outcome.value.t = "obj"
    /\ Truthy(Prop(call.outcome.value, W("data")))

\* C16: getPostComments and getPostReactions always return. getPostComments
\* returns the response when it has data, and otherwise (failed call, null
\* response, no data) the empty page: no comments, currentPage 1, pageCount 1,
\* totalCount 0, first and last page, no previous or next page.
\* getPostReactions returns the response's data, and otherwise the empty list.
C16_SafeDefaults ==
    /\ svc.pc = "done" /\ svc.fn = "getPostComments" =>
         /\ svc.outcome.kind = "return"
         /\ IF GotData THEN svc.outcome.value = call.outcome.value
            ELSE /\ Prop(svc.outcome.value, W("data")) = JArr(<<>>)
                 /\ LET meta == Prop(svc.outcome.value, W("meta")) IN
                    /\ Prop(meta, W("currentPage")) = JNum(1)
                    /\ Prop(meta, W("pageCount")) = JNum(1)
                    /\ Prop(meta, W("totalCount")) = JNum(0)
                    /\ Prop(meta, W("isFirstPage")) = JBool(TRUE)
                    /\ Prop(meta, W("isLastPage")) = JBool(TRUE)
                    /\ Prop(meta, W("previousPage")) = JNull
                    /\ Prop(meta, W("nextPage")) = JNull
    /\ svc.pc = "done" /\ svc.fn = "getPostReactions" =>
         /\ svc.outcome.kind = "return"
         /\ IF GotData THEN svc.outcome.value = Prop(call.outcome.value, W("data"))
            ELSE svc.outcome.value = JArr(<<>>)

\* C16 witness: getPostComments has returned the empty page after the network
\* failed.
C16_Witness ==
    /\ svc.pc = "done"
    /\ svc.fn = "getPostComments"
    /\ call.thrown = TypeErrorNetwork
    /\ svc.outcome = Returned(EmptyComments)

\* createComment (or replyToComment) has thrown.
CreateCommentFailed ==
    /\ svc.pc = "done"
    /\ svc.fn \in {"createComment", "replyToComment"}
    /\ svc.outcome.kind # "return"

\* C17: the error createComment throws is a plain Error without status whose
\* message follows from the message of the error it caught, lower-cased:
\* "unauthorized" gives the logged-in message, else "not found" the
\* post-not-found message, else "validation" the comment-required message,
\* else the caught message itself, and the default when that is empty.
C17_CommentErrorMessage ==
    CreateCommentFailed =>
        LET original == svc.caught.message.v
            lower == toLowerCase(original)
        IN /\ svc.outcome.kind = "Error"
           /\ DOMAIN svc.outcome = {"kind", "message"}
           /\ svc.outcome.message.v =
                IF Includes(lower, "unauthorized")
                THEN <<"You must be logged in to comment on posts.">>
                ELSE IF Includes(lower, "not found")
                THEN <<"The post you are trying to comment on was ", "not found", ".">>
                ELSE IF Includes(lower, "validation")
                THEN <<"Comment text is required and cannot be empty.">>
                ELSE IF original # <<>> THEN original
                ELSE <<"Failed to create comment. Please try again.">>

\* C17 witness: the server said "Unauthorized: post not found" and
\* createComment has thrown the logged-in message.
C17_Witness ==
    /\ CreateCommentFailed
    /\ svc.caught.kind = "ApiError"
    /\ Includes(svc.caught.message.v, "Unauthorized")
    /\ Includes(svc.caught.message.v, "not found")
    /\ svc.outcome = PlainError(JStr(<<"You must be logged in to comment on posts.">>))

-----------------------------------------------------------------------------
(* Properties of the feed page *)

\* The step ends a handler that was awaiting its request.
HandlerEnds == Len(feed'.inv) < Len(feed.inv)

C19_DisabledUntilSettled ==
    \A i \in 1..Len(feed.inv) :
        feed.inv[i].handler = "submitComment" => feed.submitDisabled

\* C24: at most one createComment of the card's post is awaited at a time: a
\* submission made while one is awaited dispatches no request.
C24_OneCommentInFlight ==
    Cardinality({ i \in 1..Len(feed.inv) : feed.inv[i].handler = "submitComment" }) <= 1

-----------------------------------------------------------------------------
(* Properties of the login page *)

-----------------------------------------------------------------------------
(* Properties of two sessions on one post *)

\* C21: the count the card displays changes only when a toggle of this
\* session ends, by +1 or -1 as that toggle's own result says, or when the
\* page is reloaded; no step reads the server's count into a page that is
\* shown, and what the other session does at the server leaves the displayed
\* count alone, whatever the server's count becomes.
C21_CountNeverReconciled ==
    [][ LET reloaded == feed' = FeedPage(ServerCount(server), 0) /\ feed.inv = <<>>
            change == feed'.reactionCount - feed.reactionCount
        IN /\ (change # 0 /\ ~reloaded) =>
                  /\ HandlerEnds
                  /\ svc.pc = "done"
                  /\ change = (IF feed'.last.result = "added" THEN 1 ELSE -1)
           /\ (HandlerEnds /\ feed'.last.result = "added") => change = 1
           /\ (server' # server /\ call' = call) => feed' = feed ]_vars

\* C21, witness: every toggle of this session has ended, the last one added
\* the reaction, the card displays 1 and the server counts 0, the other
\* session having removed the reaction in between.
C21_Witness ==
    /\ feed.inv = <<>>
    /\ svc.pc = "idle"
    /\ feed.last = [handler |-> "handleToggleReaction", result |-> "added"]
    /\ feed.reactionCount = 1
    /\ ServerCount(server) = 0

-----------------------------------------------------------------------------
(* Properties of the profile page *)

\* C22: once initializeFollowButton has completed its check of the follow
\* status, the follow button is enabled.
C22_EnabledAfterCheck == ui.pc = "ready" => ~ui.disabled

-----------------------------------------------------------------------------
(* Properties of the navbar search *)

\* C23: once no search is awaited, window.searchQuery and
\* window.searchResults are those of the input's value: null and the feed
\* out of search mode for a blank value, and else the value's term with the
\* results of a search for it.
C23_SearchFollowsInput ==
    (ui.pc = "navbar" /\ ui.pending = <<>>) =>
        LET term == trim(toLowerCase(ui.value)) IN
        IF term = <<>>
        THEN Nullish(ui.searchQuery) /\ ~ui.searchMode
        ELSE /\ ui.searchQuery = JStr(term)
             /\ \E answer \in 0..Len(SearchAnswers) :
                    ui.searchResults = JArr(SearchResults[term][answer])

-----------------------------------------------------------------------------
(* Properties of the edit form *)

\* C25: the edit form of a post, submitted as editPostFunction filled it,
\* sends the title, the body and the tags of the post.
C25_UnchangedEditKeepsPost ==
    ui.pc = "updating" =>
        /\ ui.payload.title = ui.post.title
        /\ ui.payload.body = ui.post.body
        /\ ui.payload.tags = ui.post.tags

-----------------------------------------------------------------------------
(* Properties of a login without an API key *)

\* The access token and the name of the login response the page holds.
LoginToken == OptProp(OptProp(login.result, W("data")), W("accessToken"))
LoginName == OptProp(OptProp(login.result, W("data")), W("name"))

\* The step in which a fetchApiKey that was called with a token fails.
ApiKeyFails ==
    /\ login.pc = "fetchApiKey"
    /\ Truthy(LoginToken)
    /\ login' # login
    /\ login'.apiKey = "failed"

\* A failed fetchApiKey leaves the login to complete: the token and the name
\* were stored before the request, the step writes nothing, and the handler
\* ends with the success message, the navbar refresh, the redirect and the
\* button enabled.
LoginCompletes ==
    ApiKeyFails =>
        /\ getLocalItem(storage, "accessToken") = StringOf(LoginToken)
        /\ Truthy(LoginName) => getLocalItem(storage, "user") = StringOf(LoginName)
        /\ storage' = storage
        /\ login'.pc = "form"
        /\ login'.outcome = "success"
        /\ login'.color = "green"
        /\ login'.formError = "Login successful! Redirecting to your dashboard..."
        /\ login'.navbarRefreshed
        /\ login'.redirect
        /\ ~login'.submitDisabled

\* A request of the API client made once such a login has ended.
RequestAfterKeylessLogin ==
    /\ login.outcome = "success"
    /\ login.apiKey = "failed"
    /\ Truthy(LoginToken)
    /\ InvocationStep

\* C26: when fetchApiKey fails after a login response with data and a token,
\* the login completes all the same, and the requests made afterwards carry
\* the Authorization header of the new token and no API-key header.
C26_NoKeyHeaderAfterFailedKey ==
    [][ /\ LoginCompletes
        /\ RequestAfterKeylessLogin =>
              /\ HasHeader(call'.config.headers, "Authorization")
              /\ call'.config.headers["Authorization"] = "Bearer " \o StringOf(LoginToken)
              /\ ~HasHeader(call'.config.headers, API_KEY_HEADER) ]_vars

\* C26, amended: the requests made afterwards carry the Authorization header
\* of the new token, and the API-key header exactly when a key is still
\* stored from an earlier login, with that key.
C26_KeyHeaderOnlyFromEarlierLogin ==
    [][ /\ LoginCompletes
        /\ RequestAfterKeylessLogin =>
              /\ HasHeader(call'.config.headers, "Authorization")
              /\ call'.config.headers["Authorization"] = "Bearer " \o StringOf(LoginToken)
              /\ HasHeader(call'.config.headers, API_KEY_HEADER)
                    <=> TruthyStr(getLocalItem(storage, "apiKey"))
              /\ HasHeader(call'.config.headers, API_KEY_HEADER)
                    => call'.config.headers[API_KEY_HEADER] = getLocalItem(storage, "apiKey") ]_vars

\* C26, witness: a login whose fetchApiKey failed has ended with success in a
\* browser that held no key, and a request made with the new token has no
\* API-key header.
C26_Witness ==
    /\ login.outcome = "success"
    /\ login.apiKey = "failed"
    /\ login.redirect
    /\ getLocalItem(storage, "accessToken") = "tokB"
    /\ getLocalItem(storage, "apiKey") = NULL
    /\ Dispatched
    /\ call.accessToken = "tokB"
    /\ HasHeader(call.config.headers, "Authorization")
    /\ ~HasHeader(call.config.headers, API_KEY_HEADER)

-----------------------------------------------------------------------------
(* Properties of throttle *)

\* A step in which the throttled function is called, and one in which a
\* timer expires.
ThrottleCalled == ui' # ui /\ ui'.now = ui.now /\ ui'.event[1] = "call"
ThrottleTimedOut == ui' # ui /\ ui'.now = ui.now /\ ui'.event[1] = "timeout"

\* func is invoked now with args, and a window of limit milliseconds opens.
InvokesAndOpensWindow(args) ==
    /\ ui'.invoked = ui.invoked + 1
    /\ ui'.lastAt = ui.now
    /\ ui'.lastArgs = args
    /\ ui'.waitingArgs = NULL
    /\ ui'.shouldWait
    /\ ui'.timers = <<ui.now + ui.limit>>

\* C27: two invocations of func are at least limit apart. A call outside a
\* window invokes func at once and opens a window; a call inside a window
\* invokes nothing and replaces the arguments kept; the end of a window
\* delivers the arguments kept, once, and opens a new window, or with none
\* kept closes the window, so that the next call is invoked at once.
C27_OncePerWindow ==
    /\ [](ui.pc = "throttle" =>
              /\ ui.prevAt >= 0 => ui.lastAt - ui.prevAt >= ui.limit
              /\ Len(ui.timers) = IF ui.shouldWait THEN 1 ELSE 0
              /\ ui.waitingArgs # NULL => ui.shouldWait)
    /\ [][ /\ ThrottleCalled =>
                IF ui.shouldWait
                THEN /\ ui'.invoked = ui.invoked
                     /\ ui'.waitingArgs = ui'.event[2]
                     /\ ui'.shouldWait
                     /\ ui'.timers = ui.timers
                ELSE InvokesAndOpensWindow(ui'.event[2])
            /\ ThrottleTimedOut =>
                IF ui.waitingArgs # NULL
                THEN InvokesAndOpensWindow(ui.waitingArgs)
                ELSE /\ ui'.invoked = ui.invoked
                     /\ ~ui'.shouldWait
                     /\ ui'.timers = <<>> ]_vars

\* C27, witness: the expiry of the timer of a first call, made at 0 with a
\* limit of 2, has just delivered the arguments kept from a call made inside
\* the window, and has opened a new window.
C27_Witness ==
    /\ ui.pc = "throttle"
    /\ ui.limit = 2
    /\ ui.event[1] = "timeout"
    /\ ui.invoked = 2
    /\ ui.prevAt = 0
    /\ ui.lastAt = 2
    /\ ui.now = 2
    /\ ui.lastArgs = "second"
    /\ ui.shouldWait
    /\ ui.timers = <<4>>

-----------------------------------------------------------------------------
(* Properties of the public posts *)

\* The least number of pages of `limit` posts that hold all `total` posts.
PagesFor(total, limit) == CHOOSE n \in 0..total : n * limit >= total /\ (n - 1) * limit < total

\* The ids of the posts on a page getPublicPosts has returned.
PublicPage(limit, page) == Prop(getPublicPosts(limit, page), W("data")).v

\* C29: getPublicPosts(limit, page) makes no request and returns a page of
\* the five sample posts with its meta: totalCount 5, pageCount the pages the
\* five posts need, isFirstPage and a null previousPage exactly on page 1,
\* isLastPage and a null nextPage exactly from the last page on, page - 1 and
\* page + 1 otherwise; over the pages 1..pageCount every sample post comes
\* exactly once.
C29_PublicPostsMeta ==
    /\ [](svc.fn = "getPublicPosts" /\ svc.pc = "done" =>
            LET limit == svc.args.limit
                page == svc.args.page
                pageCount == PagesFor(5, limit)
                value == svc.outcome.value
                meta == Prop(value, W("meta"))
                Meta(key) == Prop(meta, W(key))
            IN /\ svc.calls = 0
               /\ svc.outcome.kind = "return"
               /\ Meta("currentPage") = JNum(page)
               /\ Meta("totalCount") = JNum(5)
               /\ Meta("pageCount") = JNum(pageCount)
               /\ Meta("isFirstPage") = JBool(page = 1)
               /\ Meta("isLastPage") = JBool(page >= pageCount)
               /\ Meta("previousPage") = IF page = 1 THEN JNull ELSE JNum(page - 1)
               /\ Meta("nextPage") = IF page >= pageCount THEN JNull ELSE JNum(page + 1)
               /\ Prop(value, W("data")) = JArr(PublicPage(limit, page))
               /\ \A i \in 1..Len(PublicPage(limit, page)) :
                      PublicPage(limit, page)[i] = JNum((page - 1) * limit + i)
               /\ \A id \in 1..5 :
                      Cardinality({ at \in (1..pageCount) \X (1..5) :
                                      /\ at[2] <= Len(PublicPage(limit, at[1]))
                                      /\ PublicPage(limit, at[1])[at[2]] = JNum(id) }) = 1)
    /\ [][svc'.fn = "getPublicPosts" /\ svc' # svc => call' = call]_vars

\* C29, witness: getPublicPosts(2, 3) has returned the last of three pages,
\* with the fifth sample post alone on it.
C29_Witness ==
    /\ svc.fn = "getPublicPosts"
    /\ svc.pc = "done"
    /\ svc.args = [limit |-> 2, page |-> 3]
    /\ Prop(svc.outcome.value, W("data")) = JArr(<<JNum(5)>>)
    /\ Prop(Prop(svc.outcome.value, W("meta")), W("isLastPage")) = JBool(TRUE)
    /\ Prop(Prop(svc.outcome.value, W("meta")), W("previousPage")) = JNum(2)

-----------------------------------------------------------------------------
(* Properties of the time-ago text *)

\* C30: a date less than 60 seconds old reads "now"; an older one reads a
\* number that is at least 1, in minutes below 60 minutes, hours below 24
\* hours, days below 7 days, weeks below 4 weeks, and months or years from
\* there on.
C30_NumberAtLeastOne ==
    ui.pc = "time" =>
        IF ui.seconds < 60 THEN ui.text.unit = "now"
        ELSE /\ ui.text.number >= 1
             /\ ui.text.unit =
                    CASE ui.seconds < 60 * 60 -> "m"
                      [] ui.seconds < 24 * 3600 -> "h"
                      [] ui.seconds < 7 * 86400 -> "d"
                      [] ui.seconds < 28 * 86400 -> "w"
                      [] OTHER -> ui.text.unit
             /\ ui.seconds >= 28 * 86400 => ui.text.unit \in {"mo", "y"}

====
